---- MODULE Spec2Model ----
(***************************************************************************)
(* db-diff: comparison of two database snapshots (internal/diff) and the   *)
(* generation of the migration script (internal/generator).                *)
(*                                                                         *)
(* A run of `dbdiff snapshot` captures the tables of a database into a     *)
(* snapshot file (internal/snapshot, CreateSnapshot).                      *)
(* A run of `dbdiff migrate` loads two snapshots, calls diff.Compare and   *)
(* then generator.GenerateSQL.  Go iterates its maps in an unspecified     *)
(* order: every place where the code ranges over a map is modelled as a    *)
(* choice among all the orders of the map's keys.                          *)
(***************************************************************************)
EXTENDS Integers, Sequences, FiniteSets, TLC

VARIABLES
    pc,        \* position of the run: "loaded", "compared", "generated"
    snap1,     \* first snapshot:  table name -> Table
    snap2,     \* second snapshot: table name -> Table
    dbType,    \* dialect passed to GenerateSQL
    result,    \* the DiffResult of Compare
    sql,       \* the script of GenerateSQL: a sequence of per-table blocks
    run,       \* 1 for the first run of the command, 2 for the second
    firstSql,  \* the script of the first run, kept when the command is run again
    capture,   \* the run of `dbdiff snapshot`: the connector, the request, the outcome
    back       \* the DiffResult of Compare called with the two snapshots swapped

vars == <<pc, snap1, snap2, dbType, result, sql, run, firstSql, capture, back>>

(***************************************************************************)
(* Generic helpers.                                                        *)
(***************************************************************************)

\* An optional value (a Go pointer that may be nil): <<>> or <<x>>.
None == <<>>
Some(x) == <<x>>

Range(s) == {s[i] : i \in 1..Len(s)}

\* All the orders in which a map with key set S can be iterated.
Perms(S) ==
    {p \in [1..Cardinality(S) -> S] : \A i, j \in 1..Cardinality(S) : p[i] = p[j] => i = j}

\* All sequences over S of length at most n.
SeqsUpTo(S, n) == UNION {[1..k -> S] : k \in 0..n}

RECURSIVE JoinStr(_, _)
\* strings.Join
JoinStr(parts, sep) ==
    IF Len(parts) = 0 THEN ""
    ELSE IF Len(parts) = 1 THEN parts[1]
    ELSE parts[1] \o sep \o JoinStr(Tail(parts), sep)

\* The subsequence of s of the elements of the set keep (order kept).
Filter(s, keep) == SelectSeq(s, LAMBDA x : x \in keep)

\* The sequence s mapped through the function f.
MapSeq(s, f) == [i \in 1..Len(s) |-> f[s[i]]]

(***************************************************************************)
(* Row values (schema.Row is map[string]interface{}).  A value is a tagged *)
(* scalar; its payload v is the text of the value.  A snapshot is loaded   *)
(* through encoding/json, so a number is a float64 ("num"), a string a Go  *)
(* string ("str").                                                         *)
(***************************************************************************)
Null == [t |-> "null", v |-> ""]
Num(s) == [t |-> "num", v |-> s]
Str(s) == [t |-> "str", v |-> s]
Bool(s) == [t |-> "bool", v |-> s]

\* row[col]: the value, or nil when the key is absent.
RowGet(row, col) == IF col \in DOMAIN row THEN row[col] ELSE Null

\* The primary-key tuple of a row: its values at the primary-key columns.
PKTuple(row, pkColumns) == [i \in 1..Len(pkColumns) |-> RowGet(row, pkColumns[i])]

PKTuples(data, pkColumns) == {PKTuple(data[i], pkColumns) : i \in 1..Len(data)}

\* json.Marshal of one scalar.  The strings of the model hold no character
\* that JSON escapes.
jsonMarshal(val) ==
    CASE val.t = "null" -> "null"
      [] val.t = "str"  -> "\"" \o val.v \o "\""
      [] OTHER          -> val.v

Min(S) == CHOOSE m \in S : \A x \in S : m <= x
Max(S) == CHOOSE m \in S : \A x \in S : m >= x

\* The map a loop `for i := range items { m[items[i].Name] = &items[i] }` builds:
\* a later element replaces an earlier one of the same name.
ByName(items) ==
    [n \in {items[i].Name : i \in 1..Len(items)} |->
        items[Max({i \in 1..Len(items) : items[i].Name = n})]]

(***************************************************************************)
(* Snapshot creation (internal/snapshot, CreateSnapshot).  The connector   *)
(* db answers GetAllTables with db.all unless db.listFails, and the two    *)
(* calls for table t as db.outcome[t] says; a failing call returns the     *)
(* error db.cause.  An error is the chain of its messages, outermost       *)
(* first (fmt.Errorf with %w).  st holds the snapshot file (what is        *)
(* written of each table), the calls made to the connector and the error.  *)
(***************************************************************************)
NoCapture ==
    [pc |-> "none", db |-> <<>>, tables |-> <<>>,
     file |-> <<>>, calls |-> <<>>, err |-> None]

Wrap(message, err) == <<message>> \o err

\* snapshotTable: the schema is read and written, then the rows.
snapshotTable(db, st, tableName) ==
    LET asked == [st EXCEPT !.calls = Append(@, <<"GetTableSchema", tableName>>)]
    IN  IF db.outcome[tableName] = "schema fails"
        THEN [asked EXCEPT !.err = Some(Wrap("failed to get schema", <<db.cause>>))]
        ELSE LET stored == [asked EXCEPT
                               !.file = [t \in DOMAIN @ \cup {tableName} |->
                                            IF t = tableName
                                            THEN [schema |-> TRUE, rows |-> FALSE] ELSE @[t]],
                               !.calls = Append(@, <<"GetTableData", tableName>>)]
             IN  IF db.outcome[tableName] = "data fails"
                 THEN [stored EXCEPT !.err = Some(Wrap("failed to get data", <<db.cause>>))]
                 ELSE [stored EXCEPT !.file[tableName].rows = TRUE]

\* snapshotTables with the bug of going on to the next table after a failure
\* and returning the last error.
RECURSIVE snapshotTables_GoesOn(_, _, _)
snapshotTables_GoesOn(db, st, tables) ==
    IF Len(tables) = 0 THEN st
    ELSE LET done == snapshotTable(db, [st EXCEPT !.err = None], Head(tables))
             kept == IF done.err # None
                     THEN [done EXCEPT !.err = Some(Wrap("failed to snapshot table "
                                                            \o Head(tables), @[1]))]
                     ELSE [done EXCEPT !.err = st.err]
         IN  snapshotTables_GoesOn(db, kept, Tail(tables))

\* The loop of CreateSnapshot over the tables: it returns at the first error.
RECURSIVE snapshotTables(_, _, _)
snapshotTables(db, st, tables) ==
    IF Len(tables) = 0 THEN st
    ELSE LET done == snapshotTable(db, st, Head(tables))
         IN  IF done.err # None
             THEN [done EXCEPT !.err = Some(Wrap("failed to snapshot table " \o Head(tables),
                                                 @[1]))]
             ELSE snapshotTables(db, done, Tail(tables))

\* CreateSnapshot: the file is created empty; no table named means all tables.
CreateSnapshot(db, tables) ==
    LET st == [file |-> <<>>, calls |-> <<>>, err |-> None]
    IN  IF Len(tables) # 0 THEN snapshotTables(db, st, tables)
        ELSE LET asked == [st EXCEPT !.calls = Append(@, <<"GetAllTables", "">>)]
             IN  IF db.listFails
                 THEN [asked EXCEPT !.err = Some(Wrap("failed to get all tables", <<db.cause>>))]
                 ELSE snapshotTables(db, asked, db.all)

(***************************************************************************)
(* Data comparator (internal/diff, compareData and its helpers).           *)
(***************************************************************************)

\* The columns of the first index flagged Primary; nil (<<>>) when there is none.
getPrimaryKeyColumns(tableSchema) ==
    LET prim == {i \in 1..Len(tableSchema.Indexes) : tableSchema.Indexes[i].Primary}
    IN  IF prim = {} THEN <<>> ELSE tableSchema.Indexes[Min(prim)].Columns

\* json.Marshal of the list of the row's values at the primary-key columns.
rowKey(row, pkColumns) ==
    "[" \o JoinStr([i \in 1..Len(pkColumns) |-> jsonMarshal(RowGet(row, pkColumns[i]))], ",")
        \o "]"

\* rowsEqual with the bug of comparing the values of the columns of a only,
\* taking a column that b lacks as null.
rowsEqual_ColumnsOfA(a, b) ==
    \A key \in DOMAIN a : jsonMarshal(a[key]) = jsonMarshal(RowGet(b, key))

rowsEqual(a, b) ==
    /\ Cardinality(DOMAIN a) = Cardinality(DOMAIN b)
    /\ \A key \in DOMAIN a :
          /\ key \in DOMAIN b
          /\ jsonMarshal(a[key]) = jsonMarshal(b[key])

\* KeyedRows with the bug of keeping the first row of a key (a `continue` on a
\* key already present).
KeyedRows_FirstWins(data, pkColumns) ==
    [k \in {rowKey(data[i], pkColumns) : i \in 1..Len(data)} |->
        data[Min({i \in 1..Len(data) : rowKey(data[i], pkColumns) = k})]]

\* The map `rows[rowKey(row)] = row` built over data in sequence order.
KeyedRows(data, pkColumns) ==
    [k \in {rowKey(data[i], pkColumns) : i \in 1..Len(data)} |->
        data[Max({i \in 1..Len(data) : rowKey(data[i], pkColumns) = k})]]

\* DataDiffOf with the bug of a missing else: every new row is appended to
\* RowsAdded, also the one found among the old rows.
DataDiffOf_AddsEveryNewRow(tableName, oldRows, newRows, newOrder, oldOrder) ==
    LET modKeys == Filter(newOrder, {k \in DOMAIN newRows \cap DOMAIN oldRows :
                                         ~rowsEqual(oldRows[k], newRows[k])})
    IN  [TableName    |-> tableName,
         RowsAdded    |-> MapSeq(newOrder, newRows),
         RowsDeleted  |-> MapSeq(Filter(oldOrder, DOMAIN oldRows \ DOMAIN newRows), oldRows),
         RowsModified |-> [i \in 1..Len(modKeys) |->
                              [OldRow |-> oldRows[modKeys[i]], NewRow |-> newRows[modKeys[i]]]]]

\* The DataDiff built from the two maps when newRows is ranged over in the
\* order newOrder and oldRows in the order oldOrder.
DataDiffOf(tableName, oldRows, newRows, newOrder, oldOrder) ==
    LET modKeys == Filter(newOrder, {k \in DOMAIN newRows \cap DOMAIN oldRows :
                                         ~rowsEqual(oldRows[k], newRows[k])})
    IN  [TableName    |-> tableName,
         RowsAdded    |-> MapSeq(Filter(newOrder, DOMAIN newRows \ DOMAIN oldRows), newRows),
         RowsDeleted  |-> MapSeq(Filter(oldOrder, DOMAIN oldRows \ DOMAIN newRows), oldRows),
         RowsModified |-> [i \in 1..Len(modKeys) |->
                              [OldRow |-> oldRows[modKeys[i]], NewRow |-> newRows[modKeys[i]]]]]

\* The end of compareData: nil when the three lists are empty.
NilIfNoRowChanges(diff) ==
    IF Len(diff.RowsAdded) = 0 /\ Len(diff.RowsDeleted) = 0 /\ Len(diff.RowsModified) = 0
    THEN None ELSE Some(diff)

\* compareDataNoKey with the bug of leaving RowsDeleted unset.
compareDataNoKey_AddedOnly(tableName, oldData, newData) ==
    Some([TableName    |-> tableName,
          RowsAdded    |-> IF Len(oldData) # Len(newData) THEN newData ELSE <<>>,
          RowsDeleted  |-> <<>>,
          RowsModified |-> <<>>])

\* The branch of compareData taken when the schema gives no primary-key column.
compareDataNoKey(tableName, oldData, newData) ==
    Some([TableName    |-> tableName,
          RowsAdded    |-> IF Len(oldData) # Len(newData) THEN newData ELSE <<>>,
          RowsDeleted  |-> IF Len(oldData) # Len(newData) THEN oldData ELSE <<>>,
          RowsModified |-> <<>>])

\* compareData: the set of the results it can return (None, or Some DataDiff),
\* one for each pair of iteration orders of its two maps.
compareData(tableName, oldData, newData, tableSchema) ==
    LET pkColumns == getPrimaryKeyColumns(tableSchema)
        oldRows   == KeyedRows(oldData, pkColumns)
        newRows   == KeyedRows(newData, pkColumns)
    IN  IF Len(pkColumns) = 0
        THEN {compareDataNoKey(tableName, oldData, newData)}
        ELSE {NilIfNoRowChanges(DataDiffOf(tableName, oldRows, newRows, newOrder, oldOrder)) :
                 newOrder \in Perms(DOMAIN newRows), oldOrder \in Perms(DOMAIN oldRows)}

(***************************************************************************)
(* Schema comparator (internal/diff, compareSchemas and its helpers).      *)
(***************************************************************************)
ActionAdd == "ADD"
ActionDrop == "DROP"
ActionModify == "MODIFY"

\* columnsEqual with the bug of reading an absent default as the empty string.
columnsEqual_NilAsEmpty(a, b) ==
    /\ a.Name = b.Name
    /\ a.Type = b.Type
    /\ a.Nullable = b.Nullable
    /\ a.AutoIncrement = b.AutoIncrement
    /\ (IF a.DefaultValue = None THEN "" ELSE a.DefaultValue[1])
          = (IF b.DefaultValue = None THEN "" ELSE b.DefaultValue[1])

columnsEqual(a, b) ==
    /\ a.Name = b.Name
    /\ a.Type = b.Type
    /\ a.Nullable = b.Nullable
    /\ a.AutoIncrement = b.AutoIncrement
    /\ (a.DefaultValue = None) = (b.DefaultValue = None)
    /\ (a.DefaultValue # None /\ b.DefaultValue # None) => a.DefaultValue[1] = b.DefaultValue[1]

\* indexesEqual with the bug of comparing the column lists as sets.
indexesEqual_ColumnSets(a, b) ==
    /\ a.Name = b.Name
    /\ a.Unique = b.Unique
    /\ a.Primary = b.Primary
    /\ {a.Columns[i] : i \in 1..Len(a.Columns)} = {b.Columns[i] : i \in 1..Len(b.Columns)}

indexesEqual(a, b) ==
    /\ a.Name = b.Name
    /\ a.Unique = b.Unique
    /\ a.Primary = b.Primary
    /\ Len(a.Columns) = Len(b.Columns)
    /\ \A i \in 1..Len(a.Columns) : i <= Len(b.Columns) => a.Columns[i] = b.Columns[i]

foreignKeysEqual(a, b) ==
    /\ a.Name = b.Name
    /\ a.Column = b.Column
    /\ a.ReferencedTable = b.ReferencedTable
    /\ a.ReferencedColumn = b.ReferencedColumn
    /\ a.OnDelete = b.OnDelete
    /\ a.OnUpdate = b.OnUpdate

\* ColumnChangesOf with the bug of reporting a column of both schemas as
\* modified whether or not its two definitions are equal.
ColumnChangesOf_AlwaysModify(oldColumns, newColumns, newOrder, oldOrder) ==
    LET dropped == Filter(oldOrder, DOMAIN oldColumns \ DOMAIN newColumns)
    IN  [i \in 1..Len(newOrder) |->
            IF newOrder[i] \in DOMAIN oldColumns
            THEN [ColumnName |-> newOrder[i], Action |-> ActionModify,
                  OldColumn |-> Some(oldColumns[newOrder[i]]),
                  NewColumn |-> Some(newColumns[newOrder[i]])]
            ELSE [ColumnName |-> newOrder[i], Action |-> ActionAdd,
                  OldColumn |-> None, NewColumn |-> Some(newColumns[newOrder[i]])]]
        \o
        [i \in 1..Len(dropped) |->
            [ColumnName |-> dropped[i], Action |-> ActionDrop,
             OldColumn |-> Some(oldColumns[dropped[i]]), NewColumn |-> None]]

\* The column changes appended by the two loops over newColumns and oldColumns.
ColumnChangesOf(oldColumns, newColumns, newOrder, oldOrder) ==
    LET changed == Filter(newOrder, {n \in DOMAIN newColumns :
                      n \in DOMAIN oldColumns => ~columnsEqual(oldColumns[n], newColumns[n])})
        dropped == Filter(oldOrder, DOMAIN oldColumns \ DOMAIN newColumns)
    IN  [i \in 1..Len(changed) |->
            IF changed[i] \in DOMAIN oldColumns
            THEN [ColumnName |-> changed[i], Action |-> ActionModify,
                  OldColumn |-> Some(oldColumns[changed[i]]),
                  NewColumn |-> Some(newColumns[changed[i]])]
            ELSE [ColumnName |-> changed[i], Action |-> ActionAdd,
                  OldColumn |-> None, NewColumn |-> Some(newColumns[changed[i]])]]
        \o
        [i \in 1..Len(dropped) |->
            [ColumnName |-> dropped[i], Action |-> ActionDrop,
             OldColumn |-> Some(oldColumns[dropped[i]]), NewColumn |-> None]]

\* The index changes appended by the two loops over newIndexes and oldIndexes.
IndexChangesOf(oldIndexes, newIndexes, newOrder, oldOrder) ==
    LET changed == Filter(newOrder, {n \in DOMAIN newIndexes :
                      n \in DOMAIN oldIndexes => ~indexesEqual(oldIndexes[n], newIndexes[n])})
        dropped == Filter(oldOrder, DOMAIN oldIndexes \ DOMAIN newIndexes)
    IN  [i \in 1..Len(changed) |->
            IF changed[i] \in DOMAIN oldIndexes
            THEN [IndexName |-> changed[i], Action |-> ActionModify,
                  OldIndex |-> Some(oldIndexes[changed[i]]),
                  NewIndex |-> Some(newIndexes[changed[i]])]
            ELSE [IndexName |-> changed[i], Action |-> ActionAdd,
                  OldIndex |-> None, NewIndex |-> Some(newIndexes[changed[i]])]]
        \o
        [i \in 1..Len(dropped) |->
            [IndexName |-> dropped[i], Action |-> ActionDrop,
             OldIndex |-> Some(oldIndexes[dropped[i]]), NewIndex |-> None]]

\* ForeignKeyChangesOf with the bug of leaving out the loop over oldFKs: a
\* dropped foreign key is not reported.
ForeignKeyChangesOf_NoDrop(oldFKs, newFKs, newOrder, oldOrder) ==
    LET changed == Filter(newOrder, {n \in DOMAIN newFKs :
                      n \in DOMAIN oldFKs => ~foreignKeysEqual(oldFKs[n], newFKs[n])})
    IN  [i \in 1..Len(changed) |->
            IF changed[i] \in DOMAIN oldFKs
            THEN [FKName |-> changed[i], Action |-> ActionModify,
                  OldForeignKey |-> Some(oldFKs[changed[i]]),
                  NewForeignKey |-> Some(newFKs[changed[i]])]
            ELSE [FKName |-> changed[i], Action |-> ActionAdd,
                  OldForeignKey |-> None, NewForeignKey |-> Some(newFKs[changed[i]])]]

\* The foreign-key changes appended by the two loops over newFKs and oldFKs.
ForeignKeyChangesOf(oldFKs, newFKs, newOrder, oldOrder) ==
    LET changed == Filter(newOrder, {n \in DOMAIN newFKs :
                      n \in DOMAIN oldFKs => ~foreignKeysEqual(oldFKs[n], newFKs[n])})
        dropped == Filter(oldOrder, DOMAIN oldFKs \ DOMAIN newFKs)
    IN  [i \in 1..Len(changed) |->
            IF changed[i] \in DOMAIN oldFKs
            THEN [FKName |-> changed[i], Action |-> ActionModify,
                  OldForeignKey |-> Some(oldFKs[changed[i]]),
                  NewForeignKey |-> Some(newFKs[changed[i]])]
            ELSE [FKName |-> changed[i], Action |-> ActionAdd,
                  OldForeignKey |-> None, NewForeignKey |-> Some(newFKs[changed[i]])]]
        \o
        [i \in 1..Len(dropped) |->
            [FKName |-> dropped[i], Action |-> ActionDrop,
             OldForeignKey |-> Some(oldFKs[dropped[i]]), NewForeignKey |-> None]]

\* NilIfNoSchemaChanges with the bug of looking at the column changes only.
NilIfNoSchemaChanges_ColumnsOnly(diff) ==
    IF Len(diff.ColumnChanges) = 0 THEN None ELSE Some(diff)

\* The end of compareSchemas: nil when the three lists are empty.
NilIfNoSchemaChanges(diff) ==
    IF Len(diff.ColumnChanges) = 0 /\ Len(diff.IndexChanges) = 0
       /\ Len(diff.ForeignKeyChanges) = 0
    THEN None ELSE Some(diff)

\* compareSchemas: the set of the results it can return (None, or Some
\* SchemaDiff), one for each choice of iteration orders of its six maps.
compareSchemas(old, new) ==
    LET oldColumns == ByName(old.Columns)
        newColumns == ByName(new.Columns)
        oldIndexes == ByName(old.Indexes)
        newIndexes == ByName(new.Indexes)
        oldFKs     == ByName(old.ForeignKeys)
        newFKs     == ByName(new.ForeignKeys)
    IN  {NilIfNoSchemaChanges(
            [TableName         |-> new.Name,
             Action            |-> ActionModify,
             OldSchema         |-> Some(old),
             NewSchema         |-> Some(new),
             ColumnChanges     |-> cc,
             IndexChanges      |-> ic,
             ForeignKeyChanges |-> fc]) :
            cc \in {ColumnChangesOf(oldColumns, newColumns, no, oo) :
                       no \in Perms(DOMAIN newColumns), oo \in Perms(DOMAIN oldColumns)},
            ic \in {IndexChangesOf(oldIndexes, newIndexes, no, oo) :
                       no \in Perms(DOMAIN newIndexes), oo \in Perms(DOMAIN oldIndexes)},
            fc \in {ForeignKeyChangesOf(oldFKs, newFKs, no, oo) :
                       no \in Perms(DOMAIN newFKs), oo \in Perms(DOMAIN oldFKs)}}

(***************************************************************************)
(* Diff orchestrator (internal/diff, Compare).                             *)
(***************************************************************************)

RECURSIVE ChoiceFunctions(_)
\* For a function sets from keys to sets: the functions that pick one element
\* of sets[k] for every key k.
ChoiceFunctions(sets) ==
    IF DOMAIN sets = {} THEN {<<>>}
    ELSE LET k    == CHOOSE x \in DOMAIN sets : TRUE
             rest == [j \in DOMAIN sets \ {k} |-> sets[j]]
         IN  {[j \in DOMAIN sets |-> IF j = k THEN x ELSE c[j]] :
                 x \in sets[k], c \in ChoiceFunctions(rest)}

\* The SchemaDiff of a table that only snapshot2 holds.
TableAdded(tableName, table2) ==
    [TableName |-> tableName, Action |-> ActionAdd,
     OldSchema |-> None, NewSchema |-> Some(table2.Schema),
     ColumnChanges |-> <<>>, IndexChanges |-> <<>>, ForeignKeyChanges |-> <<>>]

\* TableDropped with the bug of storing the schema as NewSchema.
TableDropped_AsNewSchema(tableName, table1) ==
    [TableName |-> tableName, Action |-> ActionDrop,
     OldSchema |-> None, NewSchema |-> Some(table1.Schema),
     ColumnChanges |-> <<>>, IndexChanges |-> <<>>, ForeignKeyChanges |-> <<>>]

\* The SchemaDiff of a table that only snapshot1 holds.
TableDropped(tableName, table1) ==
    [TableName |-> tableName, Action |-> ActionDrop,
     OldSchema |-> Some(table1.Schema), NewSchema |-> None,
     ColumnChanges |-> <<>>, IndexChanges |-> <<>>, ForeignKeyChanges |-> <<>>]

\* What Compare gets for a table of both snapshots: the pairs (schemaDiff, dataDiff).
CompareTable(tableName, table1, table2) ==
    compareSchemas(table1.Schema, table2.Schema)
        \X compareData(tableName, table1.Data, table2.Data, table2.Schema)

\* Compare: the set of the DiffResults it can return.
Compare(s1, s2) ==
    LET tableNames == DOMAIN s1 \cup DOMAIN s2
        both       == DOMAIN s1 \cap DOMAIN s2
        perTable   == [t \in both |-> CompareTable(t, s1[t], s2[t])]
    IN  {[SchemaDiffs |->
             [t \in (tableNames \ both) \cup {b \in both : c[b][1] # None} |->
                 IF t \notin DOMAIN s1 THEN TableAdded(t, s2[t])
                 ELSE IF t \notin DOMAIN s2 THEN TableDropped(t, s1[t])
                 ELSE c[t][1][1]],
          DataDiffs |->
             [t \in {b \in both : c[b][2] # None} |-> c[t][2][1]]] :
            c \in ChoiceFunctions(perTable)}

(***************************************************************************)
(* DDL generator (internal/generator, DDLGenerator).  A statement is a     *)
(* record: its kind, the quoted table name, and the parts the code prints; *)
(* a part carries the quoted name of the item it is about.                 *)
(***************************************************************************)
IsPostgres(g) == g = "postgres" \/ g = "PostgreSQL"

\* The MySQL identifier quote, U+0060 (grave accent).  A string of this module
\* cannot hold that character: the circumflex stands for it.
BackQuote == "^"

quoteIdentifier(g, name) ==
    IF IsPostgres(g) THEN "\"" \o name \o "\"" ELSE BackQuote \o name \o BackQuote

quoteIdentifiers(g, names) == [i \in 1..Len(names) |-> quoteIdentifier(g, names[i])]

columnDefinition(g, col) ==
    quoteIdentifier(g, col.Name) \o " " \o col.Type
        \o (IF ~col.Nullable THEN " NOT NULL" ELSE "")
        \o (IF col.DefaultValue # None THEN " DEFAULT " \o col.DefaultValue[1] ELSE "")
        \o (IF col.AutoIncrement /\ ~IsPostgres(g) THEN " AUTO_INCREMENT" ELSE "")

\* The text of a foreign key after "CONSTRAINT": shared by CREATE TABLE and ADD CONSTRAINT.
foreignKeyText(g, fk) ==
    quoteIdentifier(g, fk.Name) \o " FOREIGN KEY (" \o quoteIdentifier(g, fk.Column)
        \o ") REFERENCES " \o quoteIdentifier(g, fk.ReferencedTable)
        \o "(" \o quoteIdentifier(g, fk.ReferencedColumn) \o ")"
        \o (IF fk.OnDelete # "" THEN " ON DELETE " \o fk.OnDelete ELSE "")
        \o (IF fk.OnUpdate # "" THEN " ON UPDATE " \o fk.OnUpdate ELSE "")

\* createTableParts with the bug of appending the primary key after the
\* foreign keys.
createTableParts_KeyLast(g, tableSchema) ==
    LET prim == {i \in 1..Len(tableSchema.Indexes) : tableSchema.Indexes[i].Primary}
    IN  [i \in 1..Len(tableSchema.Columns) |->
            [part |-> "COLUMN", name |-> quoteIdentifier(g, tableSchema.Columns[i].Name),
             text |-> columnDefinition(g, tableSchema.Columns[i])]]
        \o
        [i \in 1..Len(tableSchema.ForeignKeys) |->
            [part |-> "FOREIGN KEY", name |-> quoteIdentifier(g, tableSchema.ForeignKeys[i].Name),
             text |-> foreignKeyText(g, tableSchema.ForeignKeys[i])]]
        \o
        (IF prim = {} THEN <<>>
         ELSE <<[part |-> "PRIMARY KEY", name |-> "",
                 text |-> JoinStr(quoteIdentifiers(g, tableSchema.Indexes[Min(prim)].Columns), ", ")]>>)

\* The parts of CREATE TABLE between the parentheses, in the order they are appended.
createTableParts(g, tableSchema) ==
    LET prim == {i \in 1..Len(tableSchema.Indexes) : tableSchema.Indexes[i].Primary}
    IN  [i \in 1..Len(tableSchema.Columns) |->
            [part |-> "COLUMN", name |-> quoteIdentifier(g, tableSchema.Columns[i].Name),
             text |-> columnDefinition(g, tableSchema.Columns[i])]]
        \o
        (IF prim = {} THEN <<>>
         ELSE <<[part |-> "PRIMARY KEY", name |-> "",
                 text |-> JoinStr(quoteIdentifiers(g, tableSchema.Indexes[Min(prim)].Columns), ", ")]>>)
        \o
        [i \in 1..Len(tableSchema.ForeignKeys) |->
            [part |-> "FOREIGN KEY", name |-> quoteIdentifier(g, tableSchema.ForeignKeys[i].Name),
             text |-> foreignKeyText(g, tableSchema.ForeignKeys[i])]]

\* A DDL statement: every kind carries the same fields.
DDL(kind, table, name, parts) ==
    [kind |-> kind, table |-> table, name |-> name, parts |-> parts]

generateCreateTable(g, tableSchema) ==
    DDL("CREATE TABLE", quoteIdentifier(g, tableSchema.Name), "", createTableParts(g, tableSchema))

generateDropTable(g, tableName) ==
    DDL("DROP TABLE", quoteIdentifier(g, tableName), "", <<>>)

generateAddColumn(g, tableName, col) ==
    DDL("ADD COLUMN", quoteIdentifier(g, tableName), quoteIdentifier(g, col.Name),
        <<[part |-> "COLUMN", name |-> quoteIdentifier(g, col.Name),
           text |-> columnDefinition(g, col)]>>)

generateDropColumn(g, tableName, columnName) ==
    DDL("DROP COLUMN", quoteIdentifier(g, tableName), quoteIdentifier(g, columnName), <<>>)

generateModifyColumn(g, tableName, col) ==
    IF IsPostgres(g)
    THEN DDL("ALTER COLUMN TYPE", quoteIdentifier(g, tableName), quoteIdentifier(g, col.Name),
             <<[part |-> "TYPE", name |-> quoteIdentifier(g, col.Name), text |-> col.Type]>>)
    ELSE DDL("MODIFY COLUMN", quoteIdentifier(g, tableName), quoteIdentifier(g, col.Name),
             <<[part |-> "COLUMN", name |-> quoteIdentifier(g, col.Name),
                text |-> columnDefinition(g, col)]>>)

generateCreateIndex(g, tableName, idx) ==
    DDL(IF idx.Unique THEN "CREATE UNIQUE INDEX" ELSE "CREATE INDEX",
        quoteIdentifier(g, tableName), quoteIdentifier(g, idx.Name),
        <<[part |-> "COLUMNS", name |-> quoteIdentifier(g, idx.Name),
           text |-> JoinStr(quoteIdentifiers(g, idx.Columns), ", ")]>>)

\* PostgreSQL: DROP INDEX name; MySQL: DROP INDEX name ON table.
generateDropIndex(g, tableName, indexName) ==
    DDL("DROP INDEX", IF IsPostgres(g) THEN "" ELSE quoteIdentifier(g, tableName),
        quoteIdentifier(g, indexName), <<>>)

generateAddForeignKey(g, tableName, fk) ==
    DDL("ADD CONSTRAINT", quoteIdentifier(g, tableName), quoteIdentifier(g, fk.Name),
        <<[part |-> "FOREIGN KEY", name |-> quoteIdentifier(g, fk.Name),
           text |-> foreignKeyText(g, fk)]>>)

generateDropForeignKey(g, tableName, fkName) ==
    DDL(IF IsPostgres(g) THEN "DROP CONSTRAINT" ELSE "DROP FOREIGN KEY",
        quoteIdentifier(g, tableName), quoteIdentifier(g, fkName), <<>>)

\* The statements of Generate for a MODIFY diff, phase by phase.
dropForeignKeyStatements(g, schemaDiff) ==
    LET fcs == SelectSeq(schemaDiff.ForeignKeyChanges,
                         LAMBDA c : c.Action = ActionDrop \/ c.Action = ActionModify)
    IN  [i \in 1..Len(fcs) |->
            generateDropForeignKey(g, schemaDiff.TableName, fcs[i].OldForeignKey[1].Name)]

\* dropIndexStatements with the bug of dropping a primary index like any other.
dropIndexStatements_WithPrimary(g, schemaDiff) ==
    LET ics == SelectSeq(schemaDiff.IndexChanges,
                         LAMBDA c : c.Action = ActionDrop \/ c.Action = ActionModify)
    IN  [i \in 1..Len(ics) |->
            generateDropIndex(g, schemaDiff.TableName, ics[i].OldIndex[1].Name)]

dropIndexStatements(g, schemaDiff) ==
    LET ics == SelectSeq(schemaDiff.IndexChanges,
                         LAMBDA c : /\ c.Action = ActionDrop \/ c.Action = ActionModify
                                    /\ ~c.OldIndex[1].Primary)
    IN  [i \in 1..Len(ics) |->
            generateDropIndex(g, schemaDiff.TableName, ics[i].OldIndex[1].Name)]

columnStatements(g, schemaDiff) ==
    [i \in 1..Len(schemaDiff.ColumnChanges) |->
        LET c == schemaDiff.ColumnChanges[i]
        IN  IF c.Action = ActionAdd
            THEN generateAddColumn(g, schemaDiff.TableName, c.NewColumn[1])
            ELSE IF c.Action = ActionDrop
            THEN generateDropColumn(g, schemaDiff.TableName, c.ColumnName)
            ELSE generateModifyColumn(g, schemaDiff.TableName, c.NewColumn[1])]

\* createIndexStatements with the bug of creating a primary index like any
\* other.
createIndexStatements_WithPrimary(g, schemaDiff) ==
    LET ics == SelectSeq(schemaDiff.IndexChanges,
                         LAMBDA c : c.Action = ActionAdd \/ c.Action = ActionModify)
    IN  [i \in 1..Len(ics) |->
            generateCreateIndex(g, schemaDiff.TableName, ics[i].NewIndex[1])]

createIndexStatements(g, schemaDiff) ==
    LET ics == SelectSeq(schemaDiff.IndexChanges,
                         LAMBDA c : /\ c.Action = ActionAdd \/ c.Action = ActionModify
                                    /\ ~c.NewIndex[1].Primary)
    IN  [i \in 1..Len(ics) |->
            generateCreateIndex(g, schemaDiff.TableName, ics[i].NewIndex[1])]

addForeignKeyStatements(g, schemaDiff) ==
    LET fcs == SelectSeq(schemaDiff.ForeignKeyChanges,
                         LAMBDA c : c.Action = ActionAdd \/ c.Action = ActionModify)
    IN  [i \in 1..Len(fcs) |->
            generateAddForeignKey(g, schemaDiff.TableName, fcs[i].NewForeignKey[1])]

\* GenerateDDL with the bug of creating the indexes before the column
\* statements.
GenerateDDL_IndexesFirst(g, schemaDiff) ==
    IF schemaDiff.Action = ActionAdd
    THEN <<generateCreateTable(g, schemaDiff.NewSchema[1])>>
    ELSE IF schemaDiff.Action = ActionDrop
    THEN <<generateDropTable(g, schemaDiff.TableName)>>
    ELSE IF schemaDiff.Action = ActionModify
    THEN dropForeignKeyStatements(g, schemaDiff)
            \o dropIndexStatements(g, schemaDiff)
            \o createIndexStatements(g, schemaDiff)
            \o columnStatements(g, schemaDiff)
            \o addForeignKeyStatements(g, schemaDiff)
    ELSE <<>>

\* DDLGenerator.Generate: the statements it joins with "\n".
GenerateDDL(g, schemaDiff) ==
    IF schemaDiff.Action = ActionAdd
    THEN <<generateCreateTable(g, schemaDiff.NewSchema[1])>>
    ELSE IF schemaDiff.Action = ActionDrop
    THEN <<generateDropTable(g, schemaDiff.TableName)>>
    ELSE IF schemaDiff.Action = ActionModify
    THEN dropForeignKeyStatements(g, schemaDiff)
            \o dropIndexStatements(g, schemaDiff)
            \o columnStatements(g, schemaDiff)
            \o createIndexStatements(g, schemaDiff)
            \o addForeignKeyStatements(g, schemaDiff)
    ELSE <<>>

(***************************************************************************)
(* DML generator (internal/generator, DMLGenerator).  The code ranges over *)
(* the row, a map: each statement has one form per order of the columns.   *)
(***************************************************************************)

RECURSIVE SeqChoices(_)
\* For a sequence of sets: the sequences that pick one element of each.
SeqChoices(sets) ==
    IF Len(sets) = 0 THEN {<<>>}
    ELSE {<<x>> \o rest : x \in sets[1], rest \in SeqChoices(Tail(sets))}

\* fmt.Sprintf("%f", v) of a whole number, and "%v" of any scalar.
formatValue(val) ==
    CASE val.t = "null" -> "NULL"
      [] val.t = "str"  -> "'" \o val.v \o "'"
      [] val.t = "num"  -> val.v \o ".000000"
      [] val.t = "bool" -> IF val.v = "true" THEN "TRUE" ELSE "FALSE"

valuesEqual(a, b) ==
    IF a.t = "null" /\ b.t = "null" THEN TRUE
    ELSE IF a.t = "null" \/ b.t = "null" THEN FALSE
    ELSE a.v = b.v

\* A DML statement: every kind carries the same fields.  UPDATE keeps its SET
\* clause in columns and values.
DML(kind, table, columns, values, where) ==
    [kind |-> kind, table |-> table, columns |-> columns, values |-> values, where |-> where]

\* The empty string that generateUpdate returns when nothing is to be set.
EmptyStatement == DML("", "", <<>>, <<>>, <<>>)

\* whereConditions with the bug of comparing a null with "=".
whereConditions_NullByEquals(g, row, cols) ==
    [i \in 1..Len(cols) |->
        [col |-> quoteIdentifier(g, cols[i]), op |-> "=",
         value |-> formatValue(row[cols[i]])]]

\* buildWhereClause for the columns taken in the order cols.
whereConditions(g, row, cols) ==
    [i \in 1..Len(cols) |->
        IF row[cols[i]].t = "null"
        THEN [col |-> quoteIdentifier(g, cols[i]), op |-> "IS NULL", value |-> ""]
        ELSE [col |-> quoteIdentifier(g, cols[i]), op |-> "=",
              value |-> formatValue(row[cols[i]])]]

buildWhereClause(g, row) == {whereConditions(g, row, cols) : cols \in Perms(DOMAIN row)}

\* generateInsert with the bug of ranging over the row twice, once for the
\* columns and once for the values: the two orders are unrelated.
generateInsert_TwoRanges(g, tableName, row) ==
    {DML("INSERT", quoteIdentifier(g, tableName),
         quoteIdentifiers(g, cols),
         [i \in 1..Len(vals) |-> formatValue(row[vals[i]])],
         <<>>) : cols \in Perms(DOMAIN row), vals \in Perms(DOMAIN row)}

generateInsert(g, tableName, row) ==
    {DML("INSERT", quoteIdentifier(g, tableName),
         quoteIdentifiers(g, cols),
         [i \in 1..Len(cols) |-> formatValue(row[cols[i]])],
         <<>>) : cols \in Perms(DOMAIN row)}

generateDelete(g, tableName, row) ==
    {DML("DELETE", quoteIdentifier(g, tableName), <<>>, <<>>, w) :
        w \in buildWhereClause(g, row)}

\* generateUpdate with the bug of returning an UPDATE also when no column is
\* to be set.
generateUpdate_EmptySet(g, tableName, oldRow, newRow) ==
    LET differs == {col \in DOMAIN newRow :
                       col \notin DOMAIN oldRow \/ ~valuesEqual(oldRow[col], newRow[col])}
    IN  {DML("UPDATE", quoteIdentifier(g, tableName),
             quoteIdentifiers(g, Filter(cols, differs)),
             [i \in 1..Len(Filter(cols, differs)) |->
                 formatValue(newRow[Filter(cols, differs)[i]])],
             w) :
            cols \in Perms(DOMAIN newRow), w \in buildWhereClause(g, oldRow)}

\* generateUpdate with the bug of building the WHERE clause from the new row.
generateUpdate_WhereNew(g, tableName, oldRow, newRow) ==
    LET differs == {col \in DOMAIN newRow :
                       col \notin DOMAIN oldRow \/ ~valuesEqual(oldRow[col], newRow[col])}
    IN  IF differs = {} THEN {EmptyStatement}
        ELSE {DML("UPDATE", quoteIdentifier(g, tableName),
                  quoteIdentifiers(g, Filter(cols, differs)),
                  [i \in 1..Len(Filter(cols, differs)) |->
                      formatValue(newRow[Filter(cols, differs)[i]])],
                  w) :
                 cols \in Perms(DOMAIN newRow), w \in buildWhereClause(g, newRow)}

generateUpdate(g, tableName, oldRow, newRow) ==
    LET differs == {col \in DOMAIN newRow :
                       col \notin DOMAIN oldRow \/ ~valuesEqual(oldRow[col], newRow[col])}
    IN  IF differs = {} THEN {EmptyStatement}
        ELSE {DML("UPDATE", quoteIdentifier(g, tableName),
                  quoteIdentifiers(g, Filter(cols, differs)),
                  [i \in 1..Len(Filter(cols, differs)) |->
                      formatValue(newRow[Filter(cols, differs)[i]])],
                  w) :
                 cols \in Perms(DOMAIN newRow), w \in buildWhereClause(g, oldRow)}

\* GenerateDML with the bug of generating the INSERT statements before the
\* DELETE statements.
GenerateDML_InsertFirst(g, dataDiff) ==
    SeqChoices(
        [i \in 1..Len(dataDiff.RowsAdded) |->
            generateInsert(g, dataDiff.TableName, dataDiff.RowsAdded[i])]
        \o
        [i \in 1..Len(dataDiff.RowsDeleted) |->
            generateDelete(g, dataDiff.TableName, dataDiff.RowsDeleted[i])]
        \o
        [i \in 1..Len(dataDiff.RowsModified) |->
            generateUpdate(g, dataDiff.TableName, dataDiff.RowsModified[i].OldRow,
                           dataDiff.RowsModified[i].NewRow)])

\* DMLGenerator.Generate: the statement lists it can join with "\n".
GenerateDML(g, dataDiff) ==
    SeqChoices(
        [i \in 1..Len(dataDiff.RowsDeleted) |->
            generateDelete(g, dataDiff.TableName, dataDiff.RowsDeleted[i])]
        \o
        [i \in 1..Len(dataDiff.RowsAdded) |->
            generateInsert(g, dataDiff.TableName, dataDiff.RowsAdded[i])]
        \o
        [i \in 1..Len(dataDiff.RowsModified) |->
            generateUpdate(g, dataDiff.TableName, dataDiff.RowsModified[i].OldRow,
                           dataDiff.RowsModified[i].NewRow)])

(***************************************************************************)
(* SQL assembler (internal/generator, GenerateSQL).  The script is the     *)
(* sequence of the blocks it joins with "\n\n"; a block is the statement   *)
(* list of one Generate call.                                              *)
(***************************************************************************)

\* strings.Join(statements, "\n") = "": no statement, or one empty statement.
IsEmptyText(statements) ==
    Len(statements) = 0 \/ (Len(statements) = 1 /\ statements[1] = EmptyStatement)

\* The DDL blocks when result.SchemaDiffs is ranged over in the order tables.
ddlBlocks(g, schemaDiffs, tables) ==
    SelectSeq([i \in 1..Len(tables) |-> GenerateDDL(g, schemaDiffs[tables[i]])],
              LAMBDA b : ~IsEmptyText(b))

\* The DML blocks that can come out when result.DataDiffs is ranged over in
\* the order tables.
dmlBlocks(g, dataDiffs, tables) ==
    {SelectSeq(bs, LAMBDA b : ~IsEmptyText(b)) :
        bs \in SeqChoices([i \in 1..Len(tables) |-> GenerateDML(g, dataDiffs[tables[i]])])}

\* GenerateSQL with the bug of appending the DML blocks before the DDL blocks.
GenerateSQL_DMLFirst(res, g) ==
    UNION {{dml \o ddlBlocks(g, res.SchemaDiffs, st) : dml \in dmlBlocks(g, res.DataDiffs, dt)} :
              st \in Perms(DOMAIN res.SchemaDiffs), dt \in Perms(DOMAIN res.DataDiffs)}

\* GenerateSQL: the set of the scripts it can return.
GenerateSQL(res, g) ==
    UNION {{ddlBlocks(g, res.SchemaDiffs, st) \o dml : dml \in dmlBlocks(g, res.DataDiffs, dt)} :
              st \in Perms(DOMAIN res.SchemaDiffs), dt \in Perms(DOMAIN res.DataDiffs)}

(***************************************************************************)
(* The run of the command (cmd/dbdiff, runMigrate): the two snapshots are  *)
(* loaded, Compare is called, then GenerateSQL.                            *)
(***************************************************************************)
NoResult == [SchemaDiffs |-> <<>>, DataDiffs |-> <<>>]

\* DoCompare with the bug of Compare consuming the old rows it has matched.
DoCompare_ConsumesRows ==
    /\ pc = "loaded"
    /\ result' \in Compare(snap1, snap2)
    /\ pc' = "compared"
    /\ snap1' = [t \in DOMAIN snap1 |-> [snap1[t] EXCEPT !.Data = <<>>]]
    /\ UNCHANGED <<snap2, dbType, sql, run, firstSql, capture, back>>

DoCompare ==
    /\ pc = "loaded"
    /\ result' \in Compare(snap1, snap2)
    /\ pc' = "compared"
    /\ UNCHANGED <<snap1, snap2, dbType, sql, run, firstSql, capture, back>>

DoGenerateSQL ==
    /\ pc = "compared"
    /\ sql' \in GenerateSQL(result, dbType)
    /\ pc' = "generated"
    /\ UNCHANGED <<snap1, snap2, dbType, result, run, firstSql, capture, back>>

\* The command is run a second time on the same two snapshot files.
RunAgain ==
    /\ pc = "generated"
    /\ run = 1
    /\ run' = 2
    /\ firstSql' = sql
    /\ pc' = "loaded"
    /\ result' = NoResult
    /\ sql' = <<>>
    /\ UNCHANGED <<snap1, snap2, dbType, capture, back>>

\* `dbdiff snapshot`: one call of CreateSnapshot.
DoCreateSnapshot ==
    /\ capture.pc = "connected"
    /\ LET st == CreateSnapshot(capture.db, capture.tables)
       IN  capture' = [capture EXCEPT !.pc = "returned", !.file = st.file,
                                      !.calls = st.calls, !.err = st.err]
    /\ UNCHANGED <<pc, snap1, snap2, dbType, result, sql, run, firstSql, back>>

\* The command is run once more with the two snapshot files swapped.
DoCompareSwapped ==
    /\ pc = "compared"
    /\ back' \in Compare(snap2, snap1)
    /\ pc' = "mirrored"
    /\ UNCHANGED <<snap1, snap2, dbType, result, sql, run, firstSql, capture>>

NextSwapped == DoCompare \/ DoCompareSwapped

NextSnapshot == DoCreateSnapshot

Next == DoCompare \/ DoGenerateSQL

NextTwoRuns == DoCompare \/ DoGenerateSQL \/ RunAgain

(***************************************************************************)
(* The snapshots the runs start from.                                      *)
(***************************************************************************)
MaxRows == 3     \* rows of the two captures of a table, together
MaxItems == 3    \* columns, indexes and foreign keys of the two schemas of a table, together
MaxKeys == 3     \* primary-key values of the keyed table

Column(name, type, nullable, default, auto, position) ==
    [Name |-> name, Type |-> type, Nullable |-> nullable, DefaultValue |-> default,
     AutoIncrement |-> auto, Position |-> position]

Index(name, columns, unique, primary, type) ==
    [Name |-> name, Columns |-> columns, Unique |-> unique, Primary |-> primary, Type |-> type]

ForeignKey(name, column, refTable, refColumn, onDelete, onUpdate) ==
    [Name |-> name, Column |-> column, ReferencedTable |-> refTable,
     ReferencedColumn |-> refColumn, OnDelete |-> onDelete, OnUpdate |-> onUpdate]

TableSchema(name, columns, indexes, foreignKeys) ==
    [Name |-> name, Columns |-> columns, Indexes |-> indexes, ForeignKeys |-> foreignKeys]

Table(tableSchema, data) == [Schema |-> tableSchema, Data |-> data]

ColId == Column("id", "INT", FALSE, None, TRUE, 1)
ColA  == Column("a", "TEXT", TRUE, None, FALSE, 2)

\* The columns of the schemas that are compared: id, and a with a changed
\* default, type or position.
ColumnUniverse ==
    {ColId, ColA,
     Column("a", "TEXT", TRUE, Some("''"), FALSE, 2),
     Column("a", "INT", TRUE, None, FALSE, 1)}

PrimaryId == Index("PRIMARY", <<"id">>, TRUE, TRUE, "BTREE")
PrimaryA  == Index("PRIMARY", <<"a">>, TRUE, TRUE, "BTREE")
IdxA      == Index("idx_a", <<"a">>, FALSE, FALSE, "BTREE")

IndexUniverse == {PrimaryId, PrimaryA, IdxA, Index("idx_a", <<"a", "id">>, TRUE, FALSE, "BTREE")}

FkA == ForeignKey("fk_a", "a", "tags", "id", "CASCADE", "")

ForeignKeyUniverse == {FkA, ForeignKey("fk_a", "a", "tags", "id", "", ""),
                       ForeignKey("fk_id", "id", "tags", "id", "", "CASCADE")}

\* The values a capture can hold in the columns id and a: a number and its
\* string form, another number; a string and null.
ColumnValues ==
    [id |-> {Num("1"), Str("1"), Num("2")}, a |-> {Str("x"), Null}]

ColumnNames(columns) == {columns[i].Name : i \in 1..Len(columns)}

\* The rows a capture of a table with these columns can hold: a value for
\* every column.
RowsOver(columns) ==
    ChoiceFunctions([c \in ColumnNames(columns) |-> ColumnValues[c]])

\* What the database guarantees of the rows captured from one table: a column
\* comes in one representation, and under a primary index the rows have
\* distinct primary-key tuples without null.
ConsistentCapture(tableSchema, data) ==
    /\ \A i, j \in 1..Len(data) : \A c \in DOMAIN data[i] :
          (data[i][c] # Null /\ data[j][c] # Null) => data[i][c].t = data[j][c].t
    /\ \A x \in 1..Len(tableSchema.Indexes) :
          tableSchema.Indexes[x].Primary =>
              /\ Range(tableSchema.Indexes[x].Columns) \subseteq ColumnNames(tableSchema.Columns)
              /\ \A i \in 1..Len(data) :
                    /\ Null \notin Range(PKTuple(data[i], tableSchema.Indexes[x].Columns))
                    /\ \A j \in 1..Len(data) :
                          PKTuple(data[i], tableSchema.Indexes[x].Columns)
                              = PKTuple(data[j], tableSchema.Indexes[x].Columns) => i = j

\* The index lists of a table whose rows are compared: no index, a primary
\* index on id, a primary index on a.
DataIndexes == {<<>>, <<PrimaryId>>, <<PrimaryA>>}

\* The column lists of a table whose rows are compared.
DataColumns == {<<ColId>>, <<ColId, ColA>>}

\* What every run starts with.
Loaded ==
    /\ pc = "loaded"
    /\ result = NoResult
    /\ sql = <<>>
    /\ run = 1
    /\ firstSql = <<>>
    /\ capture = NoCapture
    /\ back = NoResult

\* One table in both snapshots, two consistent captures of its rows; the
\* columns and the primary index may differ between the two captures.
InitData ==
    /\ Loaded
    /\ dbType = "mysql"
    /\ \E oldCols \in DataColumns, newCols \in DataColumns :
       \E oldIdx \in DataIndexes, newIdx \in DataIndexes :
       \E old \in SeqsUpTo(RowsOver(oldCols), MaxRows) :
       \E new \in SeqsUpTo(RowsOver(newCols), MaxRows - Len(old)) :
          /\ ConsistentCapture(TableSchema("users", oldCols, oldIdx, <<>>), old)
          /\ ConsistentCapture(TableSchema("users", newCols, newIdx, <<>>), new)
          /\ snap1 = [t \in {"users"} |->
                         Table(TableSchema("users", oldCols, oldIdx, <<>>), old)]
          /\ snap2 = [t \in {"users"} |->
                         Table(TableSchema("users", newCols, newIdx, <<>>), new)]

\* The snapshot that holds the table named t when present, and nothing otherwise.
SnapshotOf(present, t, table) == IF present THEN [n \in {t} |-> table] ELSE <<>>

\* One table, in one snapshot or in both, no rows, any two schemas.
InitSchema ==
    /\ Loaded
    /\ dbType \in {"mysql", "postgres"}
    /\ \E in1 \in BOOLEAN, in2 \in BOOLEAN :
       \E oc \in SeqsUpTo(ColumnUniverse, IF in1 THEN MaxItems ELSE 0) :
       \E nc \in SeqsUpTo(ColumnUniverse, IF in2 THEN MaxItems - Len(oc) ELSE 0) :
       \E oi \in SeqsUpTo(IndexUniverse, IF in1 THEN MaxItems - Len(oc) - Len(nc) ELSE 0) :
       \E ni \in SeqsUpTo(IndexUniverse,
                          IF in2 THEN MaxItems - Len(oc) - Len(nc) - Len(oi) ELSE 0) :
       \E of \in SeqsUpTo(ForeignKeyUniverse,
                          IF in1 THEN MaxItems - Len(oc) - Len(nc) - Len(oi) - Len(ni) ELSE 0) :
       \E nf \in SeqsUpTo(ForeignKeyUniverse,
                          IF in2
                          THEN MaxItems - Len(oc) - Len(nc) - Len(oi) - Len(ni) - Len(of)
                          ELSE 0) :
          /\ in1 \/ in2
          /\ snap1 = SnapshotOf(in1, "users", Table(TableSchema("users", oc, oi, of), <<>>))
          /\ snap2 = SnapshotOf(in2, "users", Table(TableSchema("users", nc, ni, nf), <<>>))

\* The tables a snapshot can hold under the name t: bare, or with a primary
\* index, a secondary index and a foreign key; with or without rows.
TableUniverse(t) ==
    {Table(tableSchema, data) :
        tableSchema \in {TableSchema(t, <<ColId, ColA>>, <<>>, <<>>),
                         TableSchema(t, <<ColId, ColA>>, <<IdxA, PrimaryId>>, <<FkA>>)},
        data \in {<<>>, <<[id |-> Num("1"), a |-> Str("x")], [id |-> Num("2"), a |-> Null]>>}}

TableNames == {"users", "tags"}

\* Any two snapshots over the table names.
Init ==
    /\ Loaded
    /\ dbType \in {"mysql", "postgres"}
    /\ \E names1 \in SUBSET TableNames, names2 \in SUBSET TableNames :
          /\ snap1 \in ChoiceFunctions([t \in names1 |-> TableUniverse(t)])
          /\ snap2 \in ChoiceFunctions([t \in names2 |-> TableUniverse(t)])

\* The rows of a capture of the keyed table: for each id of 1..MaxKeys, in
\* this order, no row ("absent") or the row of that id with a = 'x' or null.
CaptureOf(content) ==
    LET ids == SelectSeq([k \in 1..MaxKeys |-> k], LAMBDA k : content[k] # "absent")
    IN  [i \in 1..Len(ids) |->
            [id |-> Num(ToString(ids[i])),
             a  |-> IF content[ids[i]] = "null" THEN Null ELSE Str(content[ids[i]])]]

\* One table with a primary index on id in both snapshots, the same schema,
\* any two captures of its rows.
InitKeyed ==
    /\ Loaded
    /\ dbType \in {"mysql", "postgres"}
    /\ \E old \in [1..MaxKeys -> {"absent", "x", "null"}] :
       \E new \in [1..MaxKeys -> {"absent", "x", "null"}] :
          /\ snap1 = [t \in {"users"} |->
                Table(TableSchema("users", <<ColId, ColA>>, <<PrimaryId>>, <<>>), CaptureOf(old))]
          /\ snap2 = [t \in {"users"} |->
                Table(TableSchema("users", <<ColId, ColA>>, <<PrimaryId>>, <<>>), CaptureOf(new))]

\* The definitions of column a that are compared: its default absent, empty
\* or 'x' at either position; its type, nullability or auto-increment changed.
ColumnAVariants ==
    {Column("a", "TEXT", TRUE, d, FALSE, p) : d \in {None, Some(""), Some("x")}, p \in {1, 2}}
        \cup {Column("a", "INT", TRUE, None, FALSE, 2),
              Column("a", "TEXT", FALSE, None, FALSE, 2),
              Column("a", "TEXT", TRUE, None, TRUE, 2)}

\* The column lists of a table with the columns id and a, one of them or none,
\* in either order.
ColumnLists ==
    {<<>>}
        \cup {<<a>> : a \in ColumnAVariants}
        \cup {<<Column("id", "INT", FALSE, None, TRUE, p)>> : p \in {1, 2}}
        \cup {<<Column("id", "INT", FALSE, None, TRUE, 1), a>> : a \in ColumnAVariants}
        \cup {<<a, Column("id", "INT", FALSE, None, TRUE, 2)>> : a \in ColumnAVariants}

\* One table without rows in both snapshots, any two column lists.
InitColumns ==
    /\ Loaded
    /\ dbType = "mysql"
    /\ \E oc \in ColumnLists, nc \in ColumnLists :
          /\ snap1 = [t \in {"users"} |-> Table(TableSchema("users", oc, <<>>, <<>>), <<>>)]
          /\ snap2 = [t \in {"users"} |-> Table(TableSchema("users", nc, <<>>, <<>>), <<>>)]

\* The definitions of index idx_a that are compared: over a, over a and id in
\* either order, unique or not, BTREE or HASH, and once flagged primary.
IndexAVariants ==
    {Index("idx_a", c, u, FALSE, k) :
        c \in {<<"a">>, <<"a", "id">>, <<"id", "a">>}, u \in BOOLEAN, k \in {"BTREE", "HASH"}}
        \cup {Index("idx_a", <<"a">>, TRUE, TRUE, "BTREE")}

\* The index lists of a table: idx_a or not, after the primary key or alone.
IndexLists ==
    {<<>>, <<PrimaryId>>}
        \cup {<<x>> : x \in IndexAVariants}
        \cup {<<PrimaryId, x>> : x \in IndexAVariants}

\* One table without rows in both snapshots, the columns id and a, any two
\* index lists.
InitIndexes ==
    /\ Loaded
    /\ dbType \in {"mysql", "postgres"}
    /\ \E oi \in IndexLists, ni \in IndexLists :
          /\ snap1 = [t \in {"users"} |->
                        Table(TableSchema("users", <<ColId, ColA>>, oi, <<>>), <<>>)]
          /\ snap2 = [t \in {"users"} |->
                        Table(TableSchema("users", <<ColId, ColA>>, ni, <<>>), <<>>)]

\* The rows of a capture whose schema and rows were read by two queries
\* (GetTableSchema, then GetTableData): a row can hold column a although the
\* schema does not list it, and lack it although the schema does.
AnyRows == UNION {RowsOver(columns) : columns \in DataColumns}

DistinctIds(data) ==
    \A i, j \in 1..Len(data) :
        /\ data[i].id.t = data[j].id.t
        /\ data[i].id = data[j].id => i = j

\* One table in both snapshots with the same schema, with or without the
\* primary index on id; the rows hold distinct ids of one representation.
InitUnlisted ==
    /\ Loaded
    /\ dbType \in {"mysql", "postgres"}
    /\ \E columns \in DataColumns, indexes \in {<<>>, <<PrimaryId>>} :
       \E old \in SeqsUpTo(AnyRows, MaxRows) :
       \E new \in SeqsUpTo(AnyRows, MaxRows - Len(old)) :
          /\ DistinctIds(old)
          /\ DistinctIds(new)
          /\ snap1 = [t \in {"users"} |->
                         Table(TableSchema("users", columns, indexes, <<>>), old)]
          /\ snap2 = [t \in {"users"} |->
                         Table(TableSchema("users", columns, indexes, <<>>), new)]

\* The tables of the database that is captured.
DatabaseTables == {"logs", "tags", "users"}

\* The lists of distinct tables of S.
ListsOf(S) == UNION {Perms(T) : T \in SUBSET S}

\* A connected database whose calls succeed or fail table by table, and the
\* tables asked for on the command line (none: all tables).
InitSnapshot ==
    /\ pc = "snapshot"
    /\ snap1 = <<>> /\ snap2 = <<>>
    /\ dbType = "mysql"
    /\ result = NoResult
    /\ sql = <<>>
    /\ run = 1
    /\ firstSql = <<>>
    /\ back = NoResult
    /\ \E outcome \in [DatabaseTables -> {"ok", "schema fails", "data fails"}],
          cause \in {"connection lost", "timeout"},
          listFails \in BOOLEAN,
          tables \in ListsOf(DatabaseTables) :
          capture = [pc |-> "connected",
                     db |-> [all |-> <<"logs", "tags", "users">>, outcome |-> outcome,
                             cause |-> cause, listFails |-> listFails],
                     tables |-> tables,
                     file |-> <<>>, calls |-> <<>>, err |-> None]

\* Snapshots of any of the families of tables, of schemas and of rows.
InitSwapped == Init \/ InitSchema \/ InitData

Spec == Init /\ [][Next]_vars

SpecData == InitData /\ [][Next]_vars

SpecSchema == InitSchema /\ [][Next]_vars

SpecKeyed == InitKeyed /\ [][Next]_vars

SpecColumns == InitColumns /\ [][Next]_vars

SpecIndexes == InitIndexes /\ [][Next]_vars

SpecUnlisted == InitUnlisted /\ [][Next]_vars

SpecSnapshot == InitSnapshot /\ [][NextSnapshot]_vars

SpecSwapped == InitSwapped /\ [][NextSwapped]_vars

(***************************************************************************)
(* The database a script is executed on (the spec's round trip; the        *)
(* repository executes no SQL).  A table: its columns by quoted name, each *)
(* the definition it was created with and the type it was last altered to; *)
(* the columns of its primary key; its secondary indexes and foreign keys  *)
(* by quoted name; its rows, each a value text per column.  A statement    *)
(* the database would reject leaves it unchanged, and no constraint is     *)
(* enforced on rows.                                                       *)
(***************************************************************************)
\* f with key k set to v.
With(f, k, v) == [x \in DOMAIN f \cup {k} |-> IF x = k THEN v ELSE f[x]]

\* f without the keys of ks.
Without(f, ks) == [x \in DOMAIN f \ ks |-> f[x]]

\* The row as the database holds it.
StoredRow(g, row) ==
    [q \in {quoteIdentifier(g, c) : c \in DOMAIN row} |->
        formatValue(row[CHOOSE c \in DOMAIN row : quoteIdentifier(g, c) = q])]

\* The database whose tables, columns, indexes, foreign keys and rows are
\* those of the snapshot.
DatabaseOf(g, snap) ==
    [q \in {quoteIdentifier(g, t) : t \in DOMAIN snap} |->
        LET table == snap[CHOOSE t \in DOMAIN snap : quoteIdentifier(g, t) = q]
            cols  == table.Schema.Columns
            idxs  == table.Schema.Indexes
            fks   == table.Schema.ForeignKeys
            prim  == {i \in 1..Len(idxs) : idxs[i].Primary}
            sec   == {i \in 1..Len(idxs) : ~idxs[i].Primary}
        IN  [Columns |->
                [n \in {quoteIdentifier(g, cols[i].Name) : i \in 1..Len(cols)} |->
                    <<columnDefinition(g, cols[CHOOSE i \in 1..Len(cols) :
                                                  quoteIdentifier(g, cols[i].Name) = n]), "">>],
             Key |-> IF prim = {} THEN None
                     ELSE Some(JoinStr(quoteIdentifiers(g, idxs[Min(prim)].Columns), ", ")),
             Indexes |->
                [n \in {quoteIdentifier(g, idxs[i].Name) : i \in sec} |->
                    LET idx == idxs[CHOOSE i \in sec : quoteIdentifier(g, idxs[i].Name) = n]
                    IN  [unique |-> idx.Unique,
                         columns |-> JoinStr(quoteIdentifiers(g, idx.Columns), ", ")]],
             ForeignKeys |->
                [n \in {quoteIdentifier(g, fks[i].Name) : i \in 1..Len(fks)} |->
                    foreignKeyText(g, fks[CHOOSE i \in 1..Len(fks) :
                                             quoteIdentifier(g, fks[i].Name) = n])],
             Rows |-> [i \in 1..Len(table.Data) |-> StoredRow(g, table.Data[i])]]]

\* WHERE: every condition holds of the stored row.
Matches(row, where) ==
    \A i \in 1..Len(where) :
        /\ where[i].col \in DOMAIN row
        /\ IF where[i].op = "IS NULL" THEN row[where[i].col] = "NULL"
           ELSE row[where[i].col] # "NULL" /\ row[where[i].col] = where[i].value

PartsOf(stmt, part) == SelectSeq(stmt.parts, LAMBDA p : p.part = part)

\* The table that CREATE TABLE makes: no row, no secondary index.
CreatedTable(stmt) ==
    LET cols == PartsOf(stmt, "COLUMN")
        key  == PartsOf(stmt, "PRIMARY KEY")
        fks  == PartsOf(stmt, "FOREIGN KEY")
    IN  [Columns |-> [n \in {cols[i].name : i \in 1..Len(cols)} |->
                        <<cols[CHOOSE i \in 1..Len(cols) : cols[i].name = n].text, "">>],
         Key |-> IF Len(key) = 0 THEN None ELSE Some(key[1].text),
         Indexes |-> <<>>,
         ForeignKeys |-> [n \in {fks[i].name : i \in 1..Len(fks)} |->
                            fks[CHOOSE i \in 1..Len(fks) : fks[i].name = n].text],
         Rows |-> <<>>]

\* The effect on table tb of a statement that alters the table or its rows.
ExecuteOn(tb, stmt) ==
    CASE stmt.kind = "ADD COLUMN" ->
            IF stmt.name \in DOMAIN tb.Columns THEN tb
            ELSE [tb EXCEPT !.Columns = With(@, stmt.name, <<stmt.parts[1].text, "">>),
                            !.Rows = [i \in 1..Len(@) |-> With(@[i], stmt.name, "NULL")]]
      [] stmt.kind = "DROP COLUMN" ->
            [tb EXCEPT !.Columns = Without(@, {stmt.name}),
                       !.Rows = [i \in 1..Len(@) |-> Without(@[i], {stmt.name})]]
      [] stmt.kind = "MODIFY COLUMN" ->
            IF stmt.name \notin DOMAIN tb.Columns THEN tb
            ELSE [tb EXCEPT !.Columns[stmt.name] = <<stmt.parts[1].text, "">>]
      [] stmt.kind = "ALTER COLUMN TYPE" ->
            IF stmt.name \notin DOMAIN tb.Columns THEN tb
            ELSE [tb EXCEPT !.Columns[stmt.name] = <<@[1], stmt.parts[1].text>>]
      [] stmt.kind \in {"CREATE INDEX", "CREATE UNIQUE INDEX"} ->
            IF stmt.name \in DOMAIN tb.Indexes THEN tb
            ELSE [tb EXCEPT !.Indexes =
                    With(@, stmt.name, [unique |-> stmt.kind = "CREATE UNIQUE INDEX",
                                        columns |-> stmt.parts[1].text])]
      [] stmt.kind = "ADD CONSTRAINT" ->
            IF stmt.name \in DOMAIN tb.ForeignKeys THEN tb
            ELSE [tb EXCEPT !.ForeignKeys = With(@, stmt.name, stmt.parts[1].text)]
      [] stmt.kind \in {"DROP CONSTRAINT", "DROP FOREIGN KEY"} ->
            [tb EXCEPT !.ForeignKeys = Without(@, {stmt.name})]
      [] stmt.kind = "INSERT" ->
            IF ~(Range(stmt.columns) \subseteq DOMAIN tb.Columns) THEN tb
            ELSE [tb EXCEPT !.Rows = Append(@,
                    [c \in DOMAIN tb.Columns |->
                        IF c \in Range(stmt.columns)
                        THEN stmt.values[CHOOSE i \in 1..Len(stmt.columns) :
                                            stmt.columns[i] = c]
                        ELSE "NULL"])]
      [] stmt.kind = "DELETE" ->
            [tb EXCEPT !.Rows = SelectSeq(@, LAMBDA r : ~Matches(r, stmt.where))]
      [] stmt.kind = "UPDATE" ->
            IF ~(Range(stmt.columns) \subseteq DOMAIN tb.Columns) THEN tb
            ELSE [tb EXCEPT !.Rows = [i \in 1..Len(@) |->
                    IF ~Matches(@[i], stmt.where) THEN @[i]
                    ELSE [c \in DOMAIN @[i] |->
                            IF c \in Range(stmt.columns)
                            THEN stmt.values[CHOOSE k \in 1..Len(stmt.columns) :
                                                stmt.columns[k] = c]
                            ELSE @[i][c]]]]
      [] OTHER -> tb

\* The effect of one statement of a script.
Execute(db, stmt) ==
    IF stmt.kind = "CREATE TABLE"
    THEN IF stmt.table \in DOMAIN db THEN db
         ELSE With(db, stmt.table, CreatedTable(stmt))
    ELSE IF stmt.kind = "DROP TABLE"
    THEN Without(db, {stmt.table})
    ELSE IF stmt.kind = "DROP INDEX"
    THEN \* PostgreSQL names no table: the index is dropped where it is.
         [t \in DOMAIN db |->
            IF stmt.table \in {"", t}
            THEN [db[t] EXCEPT !.Indexes = Without(@, {stmt.name})]
            ELSE db[t]]
    ELSE IF stmt.table \in DOMAIN db
    THEN [db EXCEPT ![stmt.table] = ExecuteOn(db[stmt.table], stmt)]
    ELSE db

RECURSIVE ExecuteAll(_, _)
\* The statements executed one after the other.
ExecuteAll(db, statements) ==
    IF Len(statements) = 0 THEN db
    ELSE ExecuteAll(Execute(db, Head(statements)), Tail(statements))

RECURSIVE StatementsOf(_)
\* The statements of a script, block after block.
StatementsOf(script) ==
    IF Len(script) = 0 THEN <<>> ELSE Head(script) \o StatementsOf(Tail(script))

\* Two row lists hold the same rows, each as often.
SameRows(a, b) ==
    \A r \in Range(a) \cup Range(b) :
        Cardinality({i \in 1..Len(a) : a[i] = r}) = Cardinality({i \in 1..Len(b) : b[i] = r})

\* The database has the tables, schemas and rows of the snapshot.  A column
\* whose type was altered is compared by type, any other by its definition.
DatabaseIs(db, g, snap) ==
    LET want == DatabaseOf(g, snap)
    IN  /\ DOMAIN db = DOMAIN want
        /\ \A t \in DOMAIN snap :
              LET q    == quoteIdentifier(g, t)
                  cols == snap[t].Schema.Columns
              IN  /\ DOMAIN db[q].Columns = DOMAIN want[q].Columns
                  /\ \A i \in 1..Len(cols) :
                        LET c == db[q].Columns[quoteIdentifier(g, cols[i].Name)]
                        IN  IF c[2] = "" THEN c[1] = columnDefinition(g, cols[i])
                            ELSE c[2] = cols[i].Type
                  /\ db[q].Key = want[q].Key
                  /\ db[q].Indexes = want[q].Indexes
                  /\ db[q].ForeignKeys = want[q].ForeignKeys
                  /\ SameRows(db[q].Rows, want[q].Rows)

(***************************************************************************)
(* Vocabulary of the properties.                                           *)
(***************************************************************************)

\* The tables that both snapshots hold.
Both == DOMAIN snap1 \cap DOMAIN snap2

HasPrimaryIndex(tableSchema) ==
    \E i \in 1..Len(tableSchema.Indexes) : tableSchema.Indexes[i].Primary

\* The three row lists Compare recorded for table t (empty when it recorded none).
RowsAddedOf(t) ==
    IF t \in DOMAIN result.DataDiffs THEN result.DataDiffs[t].RowsAdded ELSE <<>>
RowsDeletedOf(t) ==
    IF t \in DOMAIN result.DataDiffs THEN result.DataDiffs[t].RowsDeleted ELSE <<>>
RowsModifiedOf(t) ==
    IF t \in DOMAIN result.DataDiffs THEN result.DataDiffs[t].RowsModified ELSE <<>>

NoRowChanges(t) ==
    Len(RowsAddedOf(t)) = 0 /\ Len(RowsDeletedOf(t)) = 0 /\ Len(RowsModifiedOf(t)) = 0

\* The rows of data that no later row of the same primary-key tuple follows.
LastRows(data, pkColumns) ==
    {data[i] : i \in {j \in 1..Len(data) :
                        \A k \in (j + 1)..Len(data) :
                            PKTuple(data[k], pkColumns) # PKTuple(data[j], pkColumns)}}

NoDuplicates(list) == \A i, j \in 1..Len(list) : list[i] = list[j] => i = j

(***************************************************************************)
(* C6 (as stated): for a table whose schema has a primary index, a row of  *)
(* the captures is in RowsAdded exactly when its primary-key tuple occurs  *)
(* in the new rows and not in the old rows, in RowsDeleted exactly when    *)
(* its tuple occurs in the old rows and not in the new rows, and an (old,  *)
(* new) pair of rows of one tuple is in RowsModified exactly when the two  *)
(* rows are unequal.                                                       *)
(***************************************************************************)
C6_EveryRowClassifiedByKey ==
    pc = "compared" =>
        \A t \in Both :
            HasPrimaryIndex(snap2[t].Schema) =>
                LET pk   == getPrimaryKeyColumns(snap2[t].Schema)
                    old  == snap1[t].Data
                    new  == snap2[t].Data
                    oldT == PKTuples(old, pk)
                    newT == PKTuples(new, pk)
                IN  /\ \A r \in Range(old) \cup Range(new) :
                          /\ r \in Range(RowsAddedOf(t))
                                <=> (PKTuple(r, pk) \in newT /\ PKTuple(r, pk) \notin oldT)
                          /\ r \in Range(RowsDeletedOf(t))
                                <=> (PKTuple(r, pk) \in oldT /\ PKTuple(r, pk) \notin newT)
                    /\ \A o \in Range(old), n \in Range(new) :
                          [OldRow |-> o, NewRow |-> n] \in Range(RowsModifiedOf(t))
                              <=> (PKTuple(o, pk) = PKTuple(n, pk) /\ o # n)

(***************************************************************************)
(* C6 (amended): for a table whose schema has a primary index, with LastOld*)
(* and LastNew the last row of each primary-key tuple in the old and in    *)
(* the new rows: RowsAdded lists, once each, the rows of LastNew whose     *)
(* tuple does not occur in the old rows; RowsDeleted the rows of LastOld   *)
(* whose tuple does not occur in the new rows; RowsModified the pairs      *)
(* (old, new) of LastOld and LastNew of one tuple that are unequal.        *)
(***************************************************************************)
C6_LastRowClassifiedByKey ==
    pc = "compared" =>
        \A t \in Both :
            HasPrimaryIndex(snap2[t].Schema) =>
                LET pk   == getPrimaryKeyColumns(snap2[t].Schema)
                    old  == snap1[t].Data
                    new  == snap2[t].Data
                    oldT == PKTuples(old, pk)
                    newT == PKTuples(new, pk)
                IN  /\ Range(RowsAddedOf(t))
                          = {r \in LastRows(new, pk) : PKTuple(r, pk) \notin oldT}
                    /\ Range(RowsDeletedOf(t))
                          = {r \in LastRows(old, pk) : PKTuple(r, pk) \notin newT}
                    /\ Range(RowsModifiedOf(t))
                          = {[OldRow |-> o, NewRow |-> n] :
                                <<o, n>> \in {p \in LastRows(old, pk) \X LastRows(new, pk) :
                                                 /\ PKTuple(p[1], pk) = PKTuple(p[2], pk)
                                                 /\ p[1] # p[2]}}
                    /\ NoDuplicates(RowsAddedOf(t))
                    /\ NoDuplicates(RowsDeletedOf(t))
                    /\ NoDuplicates(RowsModifiedOf(t))

\* C6 witness: a keyed table compared, two old rows of one primary-key tuple
\* (the old schema had no primary index) and a new row of that tuple: the
\* later old row is reported modified.
C6_Witness ==
    /\ pc = "compared"
    /\ "users" \in Both
    /\ HasPrimaryIndex(snap2["users"].Schema)
    /\ Len(snap1["users"].Data) = 2
    /\ Cardinality(PKTuples(snap1["users"].Data,
                            getPrimaryKeyColumns(snap2["users"].Schema))) = 1
    /\ snap1["users"].Data[1] # snap1["users"].Data[2]
    /\ Len(RowsModifiedOf("users")) = 1
    /\ RowsModifiedOf("users")[1].OldRow = snap1["users"].Data[2]

(***************************************************************************)
(* C7: the data comparator's value equality is by canonical representation:*)
(* a value and its string form compare equal.  When the two captures of a  *)
(* keyed table hold, row by row, the same values up to their               *)
(* representation, no row is added, deleted or modified.                   *)
(***************************************************************************)
\* The canonical representation of a value: null, or its text.
Canonical(val) == IF val.t = "null" THEN <<>> ELSE <<val.v>>

CanonicalRow(row) == [c \in DOMAIN row |-> Canonical(row[c])]

SameUpToRepresentation(old, new) ==
    /\ Len(old) = Len(new)
    /\ \A i \in 1..Len(old) : CanonicalRow(old[i]) = CanonicalRow(new[i])

C7_EqualityByCanonicalRepresentation ==
    pc = "compared" =>
        \A t \in Both :
            (/\ HasPrimaryIndex(snap2[t].Schema)
             /\ SameUpToRepresentation(snap1[t].Data, snap2[t].Data))
                => NoRowChanges(t)

(***************************************************************************)
(* C8: compareData returns none whenever its added, deleted and modified   *)
(* lists are all empty, so Compare records no DataDiffs entry whose three  *)
(* lists are empty.                                                        *)
(***************************************************************************)
C8_NoEmptyDataDiff ==
    pc = "compared" =>
        \A t \in DOMAIN result.DataDiffs :
            \/ Len(result.DataDiffs[t].RowsAdded) > 0
            \/ Len(result.DataDiffs[t].RowsDeleted) > 0
            \/ Len(result.DataDiffs[t].RowsModified) > 0

C1_SelfCompareIsEmpty ==
    (pc = "compared" /\ snap1 = snap2) =>
        (DOMAIN result.SchemaDiffs = {} /\ DOMAIN result.DataDiffs = {})

(***************************************************************************)
(* C2: executing the statements of the generated script, in emitted order, *)
(* on a database whose tables, columns, indexes, foreign keys and rows are *)
(* those of snap1 yields a database whose tables, schemas and rows are     *)
(* those of snap2.                                                         *)
(***************************************************************************)
C2_RoundTripClosure ==
    pc = "generated" =>
        DatabaseIs(ExecuteAll(DatabaseOf(dbType, snap1), StatementsOf(sql)), dbType, snap2)

(***************************************************************************)
(* C4: a table only in snap2 gets a SchemaDiff with Action ADD and         *)
(* NewSchema equal to snap2's schema, and no DataDiffs entry; a table only *)
(* in snap1 gets a SchemaDiff with Action DROP and OldSchema equal to      *)
(* snap1's schema, and no DataDiffs entry.                                 *)
(***************************************************************************)
C4_TablePresence ==
    pc = "compared" =>
        /\ \A t \in DOMAIN snap2 \ DOMAIN snap1 :
              /\ t \in DOMAIN result.SchemaDiffs
              /\ result.SchemaDiffs[t].Action = ActionAdd
              /\ result.SchemaDiffs[t].NewSchema = Some(snap2[t].Schema)
              /\ t \notin DOMAIN result.DataDiffs
        /\ \A t \in DOMAIN snap1 \ DOMAIN snap2 :
              /\ t \in DOMAIN result.SchemaDiffs
              /\ result.SchemaDiffs[t].Action = ActionDrop
              /\ result.SchemaDiffs[t].OldSchema = Some(snap1[t].Schema)
              /\ t \notin DOMAIN result.DataDiffs

\* C4 witness: one table with rows only in snap2 and another, with rows, only
\* in snap1.
C4_Witness ==
    /\ pc = "compared"
    /\ \E t \in DOMAIN snap2 \ DOMAIN snap1 : Len(snap2[t].Data) > 0
    /\ \E t \in DOMAIN snap1 \ DOMAIN snap2 : Len(snap1[t].Data) > 0

(***************************************************************************)
(* C5: for each of the three collections of two schemas with unique names, *)
(* compareSchemas lists every name of the union at most once: with ADD     *)
(* when the name is only in the new schema, with DROP when it is only in   *)
(* the old schema, with MODIFY when it is in both and the two definitions  *)
(* are unequal, and not at all when they are equal; a list holds no entry  *)
(* for a name of another collection.                                       *)
(***************************************************************************)
UniqueNames(items) == \A i, j \in 1..Len(items) : items[i].Name = items[j].Name => i = j

UniqueNamesIn(tableSchema) ==
    /\ UniqueNames(tableSchema.Columns)
    /\ UniqueNames(tableSchema.Indexes)
    /\ UniqueNames(tableSchema.ForeignKeys)

Names(items) == {items[i].Name : i \in 1..Len(items)}

ItemNamed(items, n) == items[CHOOSE i \in 1..Len(items) : items[i].Name = n]

\* The SchemaDiff Compare recorded for table t, or one without changes.
SchemaDiffOf(t) ==
    IF t \in DOMAIN result.SchemaDiffs THEN result.SchemaDiffs[t]
    ELSE [TableName |-> t, Action |-> ActionModify, OldSchema |-> None, NewSchema |-> None,
          ColumnChanges |-> <<>>, IndexChanges |-> <<>>, ForeignKeyChanges |-> <<>>]

\* entries: the <<name, action>> pairs of one change list; equal(o, n): the
\* equality of two definitions of that collection.
Reconciled(entries, oldItems, newItems, equal(_, _)) ==
    /\ \A i \in 1..Len(entries) : entries[i][1] \in Names(oldItems) \cup Names(newItems)
    /\ \A n \in Names(oldItems) \cup Names(newItems) :
          LET at == {i \in 1..Len(entries) : entries[i][1] = n}
          IN  /\ Cardinality(at) <= 1
              /\ (n \in Names(newItems) \ Names(oldItems))
                    => \E i \in at : entries[i][2] = ActionAdd
              /\ (n \in Names(oldItems) \ Names(newItems))
                    => \E i \in at : entries[i][2] = ActionDrop
              /\ (n \in Names(oldItems) \cap Names(newItems))
                    => IF equal(ItemNamed(oldItems, n), ItemNamed(newItems, n))
                       THEN at = {}
                       ELSE \E i \in at : entries[i][2] = ActionModify

C5_SetReconciliationByName ==
    pc = "compared" =>
        \A t \in Both :
            (UniqueNamesIn(snap1[t].Schema) /\ UniqueNamesIn(snap2[t].Schema)) =>
                LET d == SchemaDiffOf(t)
                    o == snap1[t].Schema
                    n == snap2[t].Schema
                IN  /\ Reconciled([i \in 1..Len(d.ColumnChanges) |->
                                      <<d.ColumnChanges[i].ColumnName, d.ColumnChanges[i].Action>>],
                                  o.Columns, n.Columns, columnsEqual)
                    /\ Reconciled([i \in 1..Len(d.IndexChanges) |->
                                      <<d.IndexChanges[i].IndexName, d.IndexChanges[i].Action>>],
                                  o.Indexes, n.Indexes, indexesEqual)
                    /\ Reconciled([i \in 1..Len(d.ForeignKeyChanges) |->
                                      <<d.ForeignKeyChanges[i].FKName,
                                        d.ForeignKeyChanges[i].Action>>],
                                  o.ForeignKeys, n.ForeignKeys, foreignKeysEqual)

\* C5 witness: schemas with unique names compared, a column modified and an
\* index added, no foreign-key change.
C5_Witness ==
    /\ pc = "compared"
    /\ "users" \in Both
    /\ UniqueNamesIn(snap1["users"].Schema) /\ UniqueNamesIn(snap2["users"].Schema)
    /\ \E i \in 1..Len(SchemaDiffOf("users").ColumnChanges) :
          SchemaDiffOf("users").ColumnChanges[i].Action = ActionModify
    /\ \E i \in 1..Len(SchemaDiffOf("users").IndexChanges) :
          SchemaDiffOf("users").IndexChanges[i].Action = ActionAdd
    /\ SchemaDiffOf("users").ForeignKeyChanges = <<>>

(***************************************************************************)
(* C10: for a SchemaDiff with Action ADD the DDL is exactly one statement, *)
(* a CREATE TABLE that lists every column of NewSchema in schema column    *)
(* order, then one PRIMARY KEY clause when the schema has a primary index  *)
(* (none otherwise), then one FOREIGN KEY constraint per foreign key; for  *)
(* Action DROP the DDL is exactly one DROP TABLE statement.                *)
(***************************************************************************)
\* The blocks of the script made of statements of the given kind for table t.
BlocksOf(t, kind) ==
    {i \in 1..Len(sql) : \E k \in 1..Len(sql[i]) :
        sql[i][k].kind = kind /\ sql[i][k].table = quoteIdentifier(dbType, t)}

CreateTableListsSchema(stmt, tableSchema) ==
    LET nC == Len(tableSchema.Columns)
        nP == IF HasPrimaryIndex(tableSchema) THEN 1 ELSE 0
        nF == Len(tableSchema.ForeignKeys)
    IN  /\ stmt.kind = "CREATE TABLE"
        /\ Len(stmt.parts) = nC + nP + nF
        /\ \A i \in 1..nC :
              /\ stmt.parts[i].part = "COLUMN"
              /\ stmt.parts[i].text = columnDefinition(dbType, tableSchema.Columns[i])
        /\ \A i \in 1..nP : stmt.parts[nC + i].part = "PRIMARY KEY"
        /\ \A i \in 1..nF :
              /\ stmt.parts[nC + nP + i].part = "FOREIGN KEY"
              /\ stmt.parts[nC + nP + i].text = foreignKeyText(dbType, tableSchema.ForeignKeys[i])

C10_CreateAndDropTable ==
    pc = "generated" =>
        \A t \in DOMAIN result.SchemaDiffs :
            /\ result.SchemaDiffs[t].Action = ActionAdd =>
                  \E i \in 1..Len(sql) :
                      /\ BlocksOf(t, "CREATE TABLE") = {i}
                      /\ Len(sql[i]) = 1
                      /\ CreateTableListsSchema(sql[i][1], result.SchemaDiffs[t].NewSchema[1])
            /\ result.SchemaDiffs[t].Action = ActionDrop =>
                  \E i \in 1..Len(sql) :
                      /\ BlocksOf(t, "DROP TABLE") = {i}
                      /\ Len(sql[i]) = 1
                      /\ sql[i][1].parts = <<>>

\* C10 witness: the script of a table added with a column, a primary index
\* and a foreign key: one CREATE TABLE of three parts.
C10_Witness ==
    /\ pc = "generated"
    /\ "users" \in DOMAIN result.SchemaDiffs
    /\ result.SchemaDiffs["users"].Action = ActionAdd
    /\ Len(snap2["users"].Schema.Columns) = 1
    /\ HasPrimaryIndex(snap2["users"].Schema)
    /\ Len(snap2["users"].Schema.ForeignKeys) = 1
    /\ Len(sql) = 1
    /\ Len(sql[1][1].parts) = 3

(***************************************************************************)
(* The DDL of one table, for C11.                                          *)
(***************************************************************************)
\* The DDL statements of the script that are about table t.  PostgreSQL's
\* DROP INDEX names no table: it is about t when t had an index of that name.
DDLStatementsOf(t) ==
    SelectSeq(StatementsOf(sql), LAMBDA s :
        /\ s.kind \notin {"INSERT", "DELETE", "UPDATE", ""}
        /\ \/ s.table = quoteIdentifier(dbType, t)
           \/ /\ s.kind = "DROP INDEX" /\ s.table = "" /\ t \in DOMAIN snap1
              /\ \E i \in 1..Len(snap1[t].Schema.Indexes) :
                    s.name = quoteIdentifier(dbType, snap1[t].Schema.Indexes[i].Name))

\* The phase of a statement of a MODIFY diff.
Phase(stmt) ==
    CASE stmt.kind \in {"DROP CONSTRAINT", "DROP FOREIGN KEY"} -> 1
      [] stmt.kind = "DROP INDEX" -> 2
      [] stmt.kind \in {"ADD COLUMN", "DROP COLUMN", "MODIFY COLUMN", "ALTER COLUMN TYPE"} -> 3
      [] stmt.kind \in {"CREATE INDEX", "CREATE UNIQUE INDEX"} -> 4
      [] stmt.kind = "ADD CONSTRAINT" -> 5
      [] OTHER -> 0

\* How many statements of stmts are of the given phase and name, with the
\* given text in their first part ("" for any).
CountOf(stmts, phase, name, text) ==
    Cardinality({i \in 1..Len(stmts) :
        /\ Phase(stmts[i]) = phase
        /\ stmts[i].name = name
        /\ text # "" => (Len(stmts[i].parts) = 1 /\ stmts[i].parts[1].text = text)})

\* The statements of table t are those of the five phases of its MODIFY diff
\* d, in phase order.  withPrimary: a primary index is dropped and created
\* like any other.
FivePhases(t, d, withPrimary) ==
    LET stmts == DDLStatementsOf(t)
        g     == dbType
        fkOld == {i \in 1..Len(d.ForeignKeyChanges) :
                    d.ForeignKeyChanges[i].Action \in {ActionDrop, ActionModify}}
        fkNew == {i \in 1..Len(d.ForeignKeyChanges) :
                    d.ForeignKeyChanges[i].Action \in {ActionAdd, ActionModify}}
        ixOld == {i \in 1..Len(d.IndexChanges) :
                    /\ d.IndexChanges[i].Action \in {ActionDrop, ActionModify}
                    /\ withPrimary \/ ~d.IndexChanges[i].OldIndex[1].Primary}
        ixNew == {i \in 1..Len(d.IndexChanges) :
                    /\ d.IndexChanges[i].Action \in {ActionAdd, ActionModify}
                    /\ withPrimary \/ ~d.IndexChanges[i].NewIndex[1].Primary}
    IN  /\ \A i, j \in 1..Len(stmts) : i < j => Phase(stmts[i]) <= Phase(stmts[j])
        /\ \A i \in 1..Len(stmts) : Phase(stmts[i]) \in 1..5
        /\ Len(stmts) = Cardinality(fkOld) + Cardinality(ixOld) + Len(d.ColumnChanges)
                            + Cardinality(ixNew) + Cardinality(fkNew)
        /\ \A i \in fkOld :
              CountOf(stmts, 1, quoteIdentifier(g, d.ForeignKeyChanges[i].OldForeignKey[1].Name), "")
                  = 1
        /\ \A i \in ixOld :
              CountOf(stmts, 2, quoteIdentifier(g, d.IndexChanges[i].OldIndex[1].Name), "") = 1
        /\ \A i \in 1..Len(d.ColumnChanges) :
              CountOf(stmts, 3, quoteIdentifier(g, d.ColumnChanges[i].ColumnName), "") = 1
        /\ \A i \in ixNew :
              CountOf(stmts, 4, quoteIdentifier(g, d.IndexChanges[i].NewIndex[1].Name),
                      JoinStr(quoteIdentifiers(g, d.IndexChanges[i].NewIndex[1].Columns), ", "))
                  = 1
        /\ \A i \in fkNew :
              CountOf(stmts, 5, quoteIdentifier(g, d.ForeignKeyChanges[i].NewForeignKey[1].Name),
                      foreignKeyText(g, d.ForeignKeyChanges[i].NewForeignKey[1]))
                  = 1

(***************************************************************************)
(* C11 (as stated): the DDL of a MODIFY diff is, in this order, the drop   *)
(* of every dropped or modified foreign key, the DROP INDEX of every       *)
(* dropped or modified index, one statement per column change, the CREATE  *)
(* INDEX of every added or modified index, the ADD CONSTRAINT of every     *)
(* added or modified foreign key: a modified index yields both its drop    *)
(* and its re-creation.                                                    *)
(***************************************************************************)
C11_FivePhasesEveryIndex ==
    pc = "generated" =>
        \A t \in DOMAIN result.SchemaDiffs :
            result.SchemaDiffs[t].Action = ActionModify
                => FivePhases(t, result.SchemaDiffs[t], TRUE)

(***************************************************************************)
(* C11 (amended): as above, but DROP INDEX is emitted only for an index    *)
(* whose old definition is not primary, and CREATE INDEX only for an index *)
(* whose new definition is not primary.                                    *)
(***************************************************************************)
C11_FivePhases ==
    pc = "generated" =>
        \A t \in DOMAIN result.SchemaDiffs :
            result.SchemaDiffs[t].Action = ActionModify
                => FivePhases(t, result.SchemaDiffs[t], FALSE)

\* C11 witness: the DDL of a MODIFY diff with a modified secondary index and
\* a column change: DROP INDEX, the column statement, CREATE INDEX.
C11_Witness ==
    /\ pc = "generated"
    /\ "users" \in DOMAIN result.SchemaDiffs
    /\ result.SchemaDiffs["users"].Action = ActionModify
    /\ \E i \in 1..Len(result.SchemaDiffs["users"].IndexChanges) :
          /\ result.SchemaDiffs["users"].IndexChanges[i].Action = ActionModify
          /\ ~result.SchemaDiffs["users"].IndexChanges[i].OldIndex[1].Primary
    /\ Len(result.SchemaDiffs["users"].ColumnChanges) = 1
    /\ Len(DDLStatementsOf("users")) = 3
    /\ Phase(DDLStatementsOf("users")[1]) = 2
    /\ Phase(DDLStatementsOf("users")[2]) = 3
    /\ Phase(DDLStatementsOf("users")[3]) = 4

(***************************************************************************)
(* The DML of one table, for C12 to C15.                                   *)
(***************************************************************************)
\* The DML statements of the script that are about table t.
DMLStatementsOf(t) ==
    SelectSeq(StatementsOf(sql), LAMBDA s :
        s.kind \in {"INSERT", "DELETE", "UPDATE"} /\ s.table = quoteIdentifier(dbType, t))

\* DELETE before INSERT before UPDATE.
DMLRank(stmt) ==
    CASE stmt.kind = "DELETE" -> 1
      [] stmt.kind = "INSERT" -> 2
      [] stmt.kind = "UPDATE" -> 3
      [] OTHER -> 0

(***************************************************************************)
(* C12: the DML rendered for one DataDiff lists all DELETE statements      *)
(* first, then all INSERT statements, then all UPDATE statements.          *)
(***************************************************************************)
C12_DeleteInsertUpdate ==
    pc = "generated" =>
        \A t \in DOMAIN result.DataDiffs :
            LET stmts == DMLStatementsOf(t)
            IN  \A i, j \in 1..Len(stmts) : i < j => DMLRank(stmts[i]) <= DMLRank(stmts[j])

\* C12 witness: the DML of a DataDiff with a deleted, an added and a modified
\* row: DELETE, INSERT, UPDATE.
C12_Witness ==
    /\ pc = "generated"
    /\ "users" \in DOMAIN result.DataDiffs
    /\ Len(result.DataDiffs["users"].RowsDeleted) = 1
    /\ Len(result.DataDiffs["users"].RowsAdded) = 1
    /\ Len(result.DataDiffs["users"].RowsModified) = 1
    /\ [i \in 1..Len(DMLStatementsOf("users")) |-> DMLStatementsOf("users")[i].kind]
          = <<"DELETE", "INSERT", "UPDATE">>

\* The statements of stmts of the given kind, in their order.
OfKind(stmts, kind) == SelectSeq(stmts, LAMBDA s : s.kind = kind)

\* where is the conjunction over every column of row, one condition each:
\* IS NULL for a null, = value otherwise.
FullRowConjunction(where, row) ==
    /\ Len(where) = Cardinality(DOMAIN row)
    /\ \A c \in DOMAIN row :
          \E i \in 1..Len(where) :
              /\ where[i].col = quoteIdentifier(dbType, c)
              /\ IF row[c] = Null
                 THEN where[i].op = "IS NULL"
                 ELSE where[i].op = "=" /\ where[i].value = formatValue(row[c])

Differing(old, new) ==
    {c \in DOMAIN new : c \notin DOMAIN old \/ Canonical(old[c]) # Canonical(new[c])}

\* The SET clause of stmt sets exactly the columns cols, once each, to their
\* value in row.
SetsExactly(stmt, cols, row) ==
    /\ Len(stmt.columns) = Cardinality(cols)
    /\ Len(stmt.values) = Len(stmt.columns)
    /\ \A c \in cols :
          \E i \in 1..Len(stmt.columns) :
              /\ stmt.columns[i] = quoteIdentifier(dbType, c)
              /\ stmt.values[i] = formatValue(row[c])

IsDML(stmt) == stmt.kind \in {"INSERT", "DELETE", "UPDATE"}

IsDDL(stmt) == Phase(stmt) \in 1..5 \/ stmt.kind \in {"CREATE TABLE", "DROP TABLE"}

(***************************************************************************)
(* C15: in the script the DDL of every table precedes the DML of every     *)
(* table, and a table whose rendering is empty contributes nothing: the    *)
(* script has one block per non-empty rendering.                           *)
(***************************************************************************)
C15_DDLBeforeDML ==
    pc = "generated" =>
        LET stmts == StatementsOf(sql)
        IN  /\ \A i, j \in 1..Len(stmts) : (IsDML(stmts[i]) /\ IsDDL(stmts[j])) => j < i
            /\ \A b \in 1..Len(sql) : ~IsEmptyText(sql[b])
            /\ Len(sql) =
                  Cardinality({t \in DOMAIN result.SchemaDiffs : DDLStatementsOf(t) # <<>>})
                + Cardinality({t \in DOMAIN result.DataDiffs : DMLStatementsOf(t) # <<>>})

\* C15 witness: a script of a DDL block and a DML block, while a third
\* rendering, of a DataDiff without row changes, is empty.
C15_Witness ==
    /\ pc = "generated"
    /\ Len(sql) = 2
    /\ \A k \in 1..Len(sql[1]) : IsDDL(sql[1][k])
    /\ \A k \in 1..Len(sql[2]) : IsDML(sql[2][k])
    /\ \E t \in DOMAIN result.DataDiffs : NoRowChanges(t)
    /\ \E t \in DOMAIN result.DataDiffs : ~NoRowChanges(t)

\* The malformed inputs: a schema with two columns of one name; a row that
\* lacks a column of the primary key it is identified by.
DuplicateColumnName(tableSchema) == ~UniqueNames(tableSchema.Columns)

RowLacksKeyColumn(data, tableSchema) ==
    \E i \in 1..Len(data) :
        ~(Range(getPrimaryKeyColumns(tableSchema)) \subseteq DOMAIN data[i])

MalformedInput ==
    \/ \E t \in DOMAIN snap1 : DuplicateColumnName(snap1[t].Schema)
    \/ \E t \in DOMAIN snap2 : DuplicateColumnName(snap2[t].Schema)
    \/ \E t \in Both : \/ RowLacksKeyColumn(snap1[t].Data, snap2[t].Schema)
                       \/ RowLacksKeyColumn(snap2[t].Data, snap2[t].Schema)

(***************************************************************************)
(* C16: malformed input makes the engine fail fast: no DiffResult and no   *)
(* script is produced from it.                                             *)
(***************************************************************************)
C16_MalformedInputFails ==
    MalformedInput => (pc \notin {"compared", "generated"} /\ result = NoResult /\ sql = <<>>)

SameColumnDefinition(a, b) ==
    /\ a.Name = b.Name
    /\ a.Type = b.Type
    /\ a.Nullable = b.Nullable
    /\ a.AutoIncrement = b.AutoIncrement
    /\ a.DefaultValue = b.DefaultValue

\* The column list without the order and the positions of its columns.
Unordered(columns) == {[columns[i] EXCEPT !.Position = 0] : i \in 1..Len(columns)}

(***************************************************************************)
(* C18: a column of both schemas is reported modified exactly when its two *)
(* definitions differ in name, type, nullability, auto-increment flag or   *)
(* default, an absent default differing from an empty one; the position    *)
(* takes no part: a schema that only reorders its columns yields no column *)
(* change.                                                                 *)
(***************************************************************************)
C18_ColumnEquality ==
    pc = "compared" =>
        \A t \in Both :
            LET o == snap1[t].Schema.Columns
                n == snap2[t].Schema.Columns
                changes == SchemaDiffOf(t).ColumnChanges
            IN  (UniqueNames(o) /\ UniqueNames(n)) =>
                    /\ \A c \in Names(o) \cap Names(n) :
                          (\E i \in 1..Len(changes) : changes[i].ColumnName = c)
                              <=> ~SameColumnDefinition(ItemNamed(o, c), ItemNamed(n, c))
                    /\ Unordered(o) = Unordered(n) => changes = <<>>

\* C18 witness: the new schema swaps id and a and gives a the empty default
\* it did not have: one change, MODIFY of a.
C18_Witness ==
    /\ pc = "compared"
    /\ Len(snap1["users"].Schema.Columns) = 2
    /\ Len(snap2["users"].Schema.Columns) = 2
    /\ snap1["users"].Schema.Columns[1].Name = "id"
    /\ snap2["users"].Schema.Columns[1].Name = "a"
    /\ snap1["users"].Schema.Columns[2].DefaultValue = None
    /\ snap2["users"].Schema.Columns[1].DefaultValue = Some("")
    /\ Len(SchemaDiffOf("users").ColumnChanges) = 1
    /\ SchemaDiffOf("users").ColumnChanges[1].ColumnName = "a"
    /\ SchemaDiffOf("users").ColumnChanges[1].Action = ActionModify

\* The two indexes have the same uniqueness flag, primary flag and column
\* list, position by position.
SameIndexDefinition(a, b) ==
    /\ a.Unique = b.Unique
    /\ a.Primary = b.Primary
    /\ a.Columns = b.Columns

\* One column list is the other with columns appended.
ProperPrefix(s, t) == Len(s) < Len(t) /\ \A i \in 1..Len(s) : s[i] = t[i]

(***************************************************************************)
(* C19: an index of both schemas is reported, as MODIFY, exactly when its  *)
(* two definitions differ in the uniqueness flag, the primary flag or the  *)
(* column list compared position by position; the same columns in another  *)
(* order, or one list a proper prefix of the other, are a difference, the  *)
(* index kind is none.                                                     *)
(***************************************************************************)
C19_IndexEquality ==
    pc = "compared" =>
        \A t \in Both :
            LET o == snap1[t].Schema.Indexes
                n == snap2[t].Schema.Indexes
                changes == SchemaDiffOf(t).IndexChanges
            IN  (UniqueNames(o) /\ UniqueNames(n)) =>
                    \A x \in Names(o) \cap Names(n) :
                        LET a == ItemNamed(o, x)
                            b == ItemNamed(n, x)
                            reported == {i \in 1..Len(changes) : changes[i].IndexName = x}
                        IN  /\ reported # {} <=> ~SameIndexDefinition(a, b)
                            /\ \A i \in reported : changes[i].Action = ActionModify
                            /\ (ProperPrefix(a.Columns, b.Columns)
                                    \/ ProperPrefix(b.Columns, a.Columns)) => reported # {}

\* C19 witness: idx_a over a and id becomes idx_a over id and a, both with the
\* same flags: the one index change, a MODIFY.
C19_Witness ==
    /\ pc = "compared"
    /\ \E i \in 1..Len(snap1["users"].Schema.Indexes),
          j \in 1..Len(snap2["users"].Schema.Indexes) :
          /\ snap1["users"].Schema.Indexes[i].Columns = <<"a", "id">>
          /\ snap2["users"].Schema.Indexes[j].Columns = <<"id", "a">>
          /\ snap1["users"].Schema.Indexes[i].Unique = snap2["users"].Schema.Indexes[j].Unique
    /\ Len(SchemaDiffOf("users").IndexChanges) = 1
    /\ SchemaDiffOf("users").IndexChanges[1].IndexName = "idx_a"
    /\ SchemaDiffOf("users").IndexChanges[1].Action = ActionModify

\* The definition compareSchemas keeps for name n: the last one of the list.
LastNamed(items, n) ==
    LET at == {i \in 1..Len(items) : items[i].Name = n}
    IN  items[CHOOSE i \in at : \A j \in at : j <= i]

\* The two lists hold the same names, each with equal definitions.
Agree(oldItems, newItems, equal(_, _)) ==
    /\ Names(oldItems) = Names(newItems)
    /\ \A n \in Names(oldItems) : equal(LastNamed(oldItems, n), LastNamed(newItems, n))

ChangeCount(d) == Len(d.ColumnChanges) + Len(d.IndexChanges) + Len(d.ForeignKeyChanges)

(***************************************************************************)
(* C20: for a table of both snapshots Compare records no SchemaDiff        *)
(* exactly when the column, index and foreign-key lists of the two schemas *)
(* show no change; the SchemaDiff it records has Action MODIFY, and every  *)
(* MODIFY entry of SchemaDiffs holds at least one change.                  *)
(***************************************************************************)
C20_NoneIffNoChange ==
    pc = "compared" =>
        /\ \A t \in Both :
              LET o == snap1[t].Schema
                  n == snap2[t].Schema
              IN  /\ t \notin DOMAIN result.SchemaDiffs
                        <=> /\ Agree(o.Columns, n.Columns, columnsEqual)
                            /\ Agree(o.Indexes, n.Indexes, indexesEqual)
                            /\ Agree(o.ForeignKeys, n.ForeignKeys, foreignKeysEqual)
                  /\ t \in DOMAIN result.SchemaDiffs
                        => result.SchemaDiffs[t].Action = ActionModify
        /\ \A t \in DOMAIN result.SchemaDiffs :
              result.SchemaDiffs[t].Action = ActionModify
                  => ChangeCount(result.SchemaDiffs[t]) >= 1

\* C20 witness: the schemas differ in one foreign key only, and the table has a
\* MODIFY entry whose only change is that one.
C20_Witness ==
    /\ pc = "compared"
    /\ "users" \in Both
    /\ "users" \in DOMAIN result.SchemaDiffs
    /\ result.SchemaDiffs["users"].Action = ActionModify
    /\ result.SchemaDiffs["users"].ColumnChanges = <<>>
    /\ result.SchemaDiffs["users"].IndexChanges = <<>>
    /\ Len(result.SchemaDiffs["users"].ForeignKeyChanges) = 1

\* What a row holds at a column: its value, or nothing when it lacks the column.
ValueAt(row, col) == IF col \in DOMAIN row THEN Some(row[col]) ELSE None

\* The two rows differ at some column of the union of their column names; a
\* column that one row lacks is a difference, a null against a value is one.
DifferOnUnion(o, n) == \E c \in DOMAIN o \cup DOMAIN n : ValueAt(o, c) # ValueAt(n, c)

DroppedOrModified(old, new, x) ==
    /\ x \in Names(old)
    /\ x \in Names(new) => ~SameIndexDefinition(ItemNamed(old, x), ItemNamed(new, x))

AddedOrModified(old, new, x) == DroppedOrModified(new, old, x)

(***************************************************************************)
(* C22: in the DDL of a MODIFY SchemaDiff no DROP INDEX names an index     *)
(* whose old definition is primary and no CREATE INDEX names an index      *)
(* whose new definition is primary; every other dropped or modified index  *)
(* has exactly one DROP INDEX, every other added or modified index exactly *)
(* one CREATE INDEX.                                                       *)
(***************************************************************************)
C22_PrimaryIndexExcluded ==
    pc = "generated" =>
        \A t \in Both :
            LET old   == snap1[t].Schema.Indexes
                new   == snap2[t].Schema.Indexes
                stmts == DDLStatementsOf(t)
            IN  (UniqueNames(old) /\ UniqueNames(new)) =>
                    /\ \A x \in Names(old) :
                          LET drops == CountOf(stmts, 2, quoteIdentifier(dbType, x), "")
                          IN  /\ ItemNamed(old, x).Primary => drops = 0
                              /\ (~ItemNamed(old, x).Primary /\ DroppedOrModified(old, new, x))
                                    => drops = 1
                    /\ \A x \in Names(new) :
                          LET creates == CountOf(stmts, 4, quoteIdentifier(dbType, x), "")
                          IN  /\ ItemNamed(new, x).Primary => creates = 0
                              /\ (~ItemNamed(new, x).Primary /\ AddedOrModified(old, new, x))
                                    => creates = 1

\* C22 witness: the new schema drops the primary index and changes the columns
\* of idx_a; the DDL is the DROP INDEX and the CREATE INDEX of idx_a.
C22_Witness ==
    /\ pc = "generated"
    /\ Len(snap1["users"].Schema.Indexes) = 2
    /\ snap1["users"].Schema.Indexes[1].Primary
    /\ Len(snap2["users"].Schema.Indexes) = 1
    /\ ~snap2["users"].Schema.Indexes[1].Primary
    /\ snap1["users"].Schema.Indexes[2].Columns # snap2["users"].Schema.Indexes[1].Columns
    /\ Len(result.SchemaDiffs["users"].IndexChanges) = 2
    /\ Len(DDLStatementsOf("users")) = 2
    /\ Phase(DDLStatementsOf("users")[1]) = 2
    /\ Phase(DDLStatementsOf("users")[2]) = 4

\* The modified pairs of table t with a column to set, and those without.
PairsToSet(t) ==
    SelectSeq(RowsModifiedOf(t), LAMBDA m : Differing(m.OldRow, m.NewRow) # {})

PairsNothingToSet(t) ==
    SelectSeq(RowsModifiedOf(t), LAMBDA m : Differing(m.OldRow, m.NewRow) = {})

(***************************************************************************)
(* C23: a modified pair in which no column of the new row differs from the *)
(* old row gets no statement: the statements rendered for a DataDiff are   *)
(* as many as its deleted rows, its added rows and its modified pairs with *)
(* a non-empty SET clause, and every UPDATE among them has a SET clause.   *)
(***************************************************************************)
C23_NoStatementWithoutSet ==
    pc = "generated" =>
        \A t \in DOMAIN result.DataDiffs :
            /\ Len(DMLStatementsOf(t))
                  = Len(RowsDeletedOf(t)) + Len(RowsAddedOf(t)) + Len(PairsToSet(t))
            /\ Len(OfKind(DMLStatementsOf(t), "UPDATE")) = Len(PairsToSet(t))
            /\ \A i \in 1..Len(DMLStatementsOf(t)) :
                  DMLStatementsOf(t)[i].kind = "UPDATE"
                      => Len(DMLStatementsOf(t)[i].columns) >= 1

\* C23 witness: the new capture lacks column a: the row that stayed is a
\* modified pair with nothing to set, the row that went is deleted, and the
\* one statement is the DELETE.
C23_Witness ==
    /\ pc = "generated"
    /\ "users" \in DOMAIN result.DataDiffs
    /\ Len(PairsNothingToSet("users")) = 1
    /\ Len(RowsDeletedOf("users")) = 1
    /\ Len(RowsAddedOf("users")) = 0
    /\ Len(DMLStatementsOf("users")) = 1
    /\ DMLStatementsOf("users")[1].kind = "DELETE"

(***************************************************************************)
(* C24: the renderer's value equality (valuesEqual) and the comparator's   *)
(* (the equality of the JSON texts, rowsEqual) agree on every two values   *)
(* of a compared pair, so every pair of RowsModified renders to an UPDATE  *)
(* with a non-empty SET clause.                                            *)
(***************************************************************************)
C24_SameValueEquality ==
    pc = "generated" =>
        \A t \in DOMAIN result.DataDiffs :
            /\ \A i \in 1..Len(RowsModifiedOf(t)) :
                  LET o == RowsModifiedOf(t)[i].OldRow
                      n == RowsModifiedOf(t)[i].NewRow
                  IN  \A c \in DOMAIN o \cap DOMAIN n :
                          valuesEqual(o[c], n[c]) <=> jsonMarshal(o[c]) = jsonMarshal(n[c])
            /\ Len(OfKind(DMLStatementsOf(t), "UPDATE")) = Len(RowsModifiedOf(t))
            /\ \A i \in 1..Len(DMLStatementsOf(t)) :
                  DMLStatementsOf(t)[i].kind = "UPDATE"
                      => Len(DMLStatementsOf(t)[i].columns) >= 1

\* The primary-key tuples of a row list, in list order.
TuplesOf(rows, pk) == [i \in 1..Len(rows) |-> PKTuple(rows[i], pk)]

(***************************************************************************)
(* C25: in the DataDiff of a table with a primary index no primary-key     *)
(* tuple occurs twice within RowsAdded, RowsDeleted or RowsModified, no    *)
(* tuple occurs in two of the three lists, and the two rows of a modified  *)
(* pair carry the same tuple: the statements rendered from the lists are   *)
(* about disjoint rows.                                                    *)
(***************************************************************************)
C25_DisjointKeys ==
    pc = "compared" =>
        \A t \in DOMAIN result.DataDiffs \cap Both :
            HasPrimaryIndex(snap2[t].Schema) =>
                LET pk       == getPrimaryKeyColumns(snap2[t].Schema)
                    added    == TuplesOf(RowsAddedOf(t), pk)
                    deleted  == TuplesOf(RowsDeletedOf(t), pk)
                    modified == [i \in 1..Len(RowsModifiedOf(t)) |->
                                    PKTuple(RowsModifiedOf(t)[i].OldRow, pk)]
                IN  /\ NoDuplicates(added) /\ NoDuplicates(deleted) /\ NoDuplicates(modified)
                    /\ Range(added) \cap Range(deleted) = {}
                    /\ Range(added) \cap Range(modified) = {}
                    /\ Range(deleted) \cap Range(modified) = {}
                    /\ \A i \in 1..Len(RowsModifiedOf(t)) :
                          PKTuple(RowsModifiedOf(t)[i].NewRow, pk) = modified[i]

\* C25 witness: a DataDiff with an added, a deleted and a modified row.
C25_Witness ==
    /\ pc = "compared"
    /\ "users" \in DOMAIN result.DataDiffs
    /\ HasPrimaryIndex(snap2["users"].Schema)
    /\ Len(RowsAddedOf("users")) = 1
    /\ Len(RowsDeletedOf("users")) = 1
    /\ Len(RowsModifiedOf("users")) = 1

\* stmt lists exactly the columns of row, once each, and its i-th value is the
\* value of row at its i-th column.
InsertsRow(stmt, row) ==
    /\ Len(stmt.columns) = Cardinality(DOMAIN row)
    /\ Len(stmt.values) = Len(stmt.columns)
    /\ {stmt.columns[i] : i \in 1..Len(stmt.columns)}
          = {quoteIdentifier(dbType, c) : c \in DOMAIN row}
    /\ \A i \in 1..Len(stmt.columns) :
          \E c \in DOMAIN row :
              /\ stmt.columns[i] = quoteIdentifier(dbType, c)
              /\ stmt.values[i] = formatValue(row[c])

(***************************************************************************)
(* C26: the DML of a DataDiff holds one INSERT per added row, in the order *)
(* of RowsAdded; its column list is exactly the set of the row's keys, a   *)
(* key the schema does not list and a key holding null included; its value *)
(* list has the same length and its i-th value is that of the i-th column. *)
(***************************************************************************)
C26_InsertListsRowKeys ==
    pc = "generated" =>
        \A t \in DOMAIN result.DataDiffs :
            LET inserts == OfKind(DMLStatementsOf(t), "INSERT")
            IN  /\ Len(inserts) = Len(RowsAddedOf(t))
                /\ \A k \in 1..Len(inserts) : InsertsRow(inserts[k], RowsAddedOf(t)[k])

\* C26 witness: the schema lists id only, the added row holds a null in a: its
\* INSERT lists both columns and two values.
C26_Witness ==
    /\ pc = "generated"
    /\ ColumnNames(snap2["users"].Schema.Columns) = {"id"}
    /\ Len(RowsAddedOf("users")) = 1
    /\ DOMAIN RowsAddedOf("users")[1] = {"id", "a"}
    /\ RowsAddedOf("users")[1].a = Null
    /\ Len(OfKind(DMLStatementsOf("users"), "INSERT")) = 1
    /\ Len(OfKind(DMLStatementsOf("users"), "INSERT")[1].columns) = 2
    /\ "NULL" \in Range(OfKind(DMLStatementsOf("users"), "INSERT")[1].values)

\* The tables CreateSnapshot was to capture, in order.
Captured == IF Len(capture.tables) # 0 THEN capture.tables ELSE capture.db.all

\* Position k is the first of the list at which a call of the connector fails.
FirstFailureAt(k) ==
    /\ k \in 1..Len(Captured)
    /\ capture.db.outcome[Captured[k]] # "ok"
    /\ \A j \in 1..(k - 1) : capture.db.outcome[Captured[j]] = "ok"

(***************************************************************************)
(* C27: when a call of the connector fails for table t, CreateSnapshot     *)
(* returns an error that names t and ends with the connector's error; it   *)
(* has made no call twice and none for a table after t, of which the file  *)
(* holds nothing; the tables before t are in the file, schema and rows.    *)
(***************************************************************************)
C27_StopsAtFirstFailure ==
    capture.pc = "returned" =>
        \A k \in 1..Len(Captured) :
            (FirstFailureAt(k) /\ (Len(capture.tables) = 0 => ~capture.db.listFails)) =>
                LET t == Captured[k]
                IN  /\ capture.err # None
                    /\ capture.err[1][1] = "failed to snapshot table " \o t
                    /\ capture.err[1][Len(capture.err[1])] = capture.db.cause
                    /\ NoDuplicates(capture.calls)
                    /\ \A j \in (k + 1)..Len(Captured) :
                          /\ Captured[j] \notin DOMAIN capture.file
                          /\ \A c \in 1..Len(capture.calls) : capture.calls[c][2] # Captured[j]
                    /\ \A j \in 1..(k - 1) :
                          /\ Captured[j] \in DOMAIN capture.file
                          /\ capture.file[Captured[j]] = [schema |-> TRUE, rows |-> TRUE]

\* C27 witness: of three tables the second fails when its rows are read: the
\* first is in the file, of the second its schema, of the third nothing.
C27_Witness ==
    /\ capture.pc = "returned"
    /\ Len(capture.tables) = 3
    /\ FirstFailureAt(2)
    /\ capture.db.outcome[capture.tables[2]] = "data fails"
    /\ capture.err # None
    /\ DOMAIN capture.file = {capture.tables[1], capture.tables[2]}
    /\ capture.file[capture.tables[2]] = [schema |-> TRUE, rows |-> FALSE]
    /\ Len(capture.calls) = 4

\* The action of a change seen from the other direction.
Opposite(action) ==
    CASE action = ActionAdd -> ActionDrop
      [] action = ActionDrop -> ActionAdd
      [] OTHER -> ActionModify

\* The changes of a SchemaDiff as a set of <<collection, name, action, old, new>>.
ChangesOf(d) ==
    {<<"column", d.ColumnChanges[i].ColumnName, d.ColumnChanges[i].Action,
       d.ColumnChanges[i].OldColumn, d.ColumnChanges[i].NewColumn>> :
          i \in 1..Len(d.ColumnChanges)}
        \cup {<<"index", d.IndexChanges[i].IndexName, d.IndexChanges[i].Action,
                d.IndexChanges[i].OldIndex, d.IndexChanges[i].NewIndex>> :
                  i \in 1..Len(d.IndexChanges)}
        \cup {<<"fk", d.ForeignKeyChanges[i].FKName, d.ForeignKeyChanges[i].Action,
                d.ForeignKeyChanges[i].OldForeignKey, d.ForeignKeyChanges[i].NewForeignKey>> :
                  i \in 1..Len(d.ForeignKeyChanges)}

\* The same changes seen from the other direction: ADD for DROP, old for new.
Swapped(changes) == {<<c[1], c[2], Opposite(c[3]), c[5], c[4]>> : c \in changes}

\* The lists the swapped Compare recorded for table t.
BackSchemaDiffOf(t) ==
    IF t \in DOMAIN back.SchemaDiffs THEN back.SchemaDiffs[t]
    ELSE [TableName |-> t, Action |-> ActionModify, OldSchema |-> None, NewSchema |-> None,
          ColumnChanges |-> <<>>, IndexChanges |-> <<>>, ForeignKeyChanges |-> <<>>]

BackRowsAddedOf(t) ==
    IF t \in DOMAIN back.DataDiffs THEN back.DataDiffs[t].RowsAdded ELSE <<>>

BackRowsDeletedOf(t) ==
    IF t \in DOMAIN back.DataDiffs THEN back.DataDiffs[t].RowsDeleted ELSE <<>>

\* Tables and schema changes mirror each other in the two directions.
MirroredSchemas ==
    /\ \A t \in DOMAIN snap1 \cup DOMAIN snap2 :
          (t \in DOMAIN result.SchemaDiffs /\ result.SchemaDiffs[t].Action = ActionAdd)
              <=> (t \in DOMAIN back.SchemaDiffs /\ back.SchemaDiffs[t].Action = ActionDrop)
    /\ \A t \in DOMAIN snap1 \cup DOMAIN snap2 :
          (t \in DOMAIN result.SchemaDiffs /\ result.SchemaDiffs[t].Action = ActionDrop)
              <=> (t \in DOMAIN back.SchemaDiffs /\ back.SchemaDiffs[t].Action = ActionAdd)
    /\ \A t \in Both :
          ChangesOf(BackSchemaDiffOf(t)) = Swapped(ChangesOf(SchemaDiffOf(t)))

\* The rows added in one direction are the rows deleted in the other.
MirroredRows(t) ==
    /\ Range(RowsAddedOf(t)) = Range(BackRowsDeletedOf(t))
    /\ Range(RowsDeletedOf(t)) = Range(BackRowsAddedOf(t))

(***************************************************************************)
(* C28 (as stated): Compare(S1, S2) and Compare(S2, S1) mirror each other: *)
(* a table is ADD in one exactly when it is DROP in the other; for a table *)
(* of both, a column, index or foreign-key ADD is a DROP and a MODIFY a    *)
(* MODIFY with old and new swapped; the rows added in one direction are    *)
(* the rows deleted in the other, also when the two snapshots give the     *)
(* table different primary indexes.                                        *)
(***************************************************************************)
C28_Mirror ==
    pc = "mirrored" => (MirroredSchemas /\ \A t \in Both : MirroredRows(t))

(***************************************************************************)
(* C28 (amended): as above, the rows of a table being mirrored when its    *)
(* two schemas give the same primary-key columns.                          *)
(***************************************************************************)
C28_MirrorSameKey ==
    pc = "mirrored" =>
        /\ MirroredSchemas
        /\ \A t \in Both :
              getPrimaryKeyColumns(snap1[t].Schema) = getPrimaryKeyColumns(snap2[t].Schema)
                  => MirroredRows(t)

\* C28 witness: both directions compared; one table is added forward and
\* dropped backward, the other, with the same primary-key columns in both
\* snapshots, has two rows deleted forward and added backward.
C28_Witness ==
    /\ pc = "mirrored"
    /\ \E t \in DOMAIN result.SchemaDiffs :
          /\ result.SchemaDiffs[t].Action = ActionAdd
          /\ back.SchemaDiffs[t].Action = ActionDrop
    /\ \E t \in Both :
          /\ getPrimaryKeyColumns(snap1[t].Schema) = getPrimaryKeyColumns(snap2[t].Schema)
          /\ Len(RowsDeletedOf(t)) = 2
          /\ Len(BackRowsAddedOf(t)) = 2

\* The positions of data whose primary-key tuple a later row carries again.
EarlierPositions(data, pk) ==
    {j \in 1..Len(data) : \E k \in (j + 1)..Len(data) : PKTuple(data[k], pk) = PKTuple(data[j], pk)}

\* data without the rows at those positions.
WithoutEarlier(data, pk) ==
    LET kept == SelectSeq([j \in 1..Len(data) |-> j], LAMBDA j : j \notin EarlierPositions(data, pk))
    IN  [i \in 1..Len(kept) |-> data[kept[i]]]

\* The rows of the old capture that the lists of table t report, and those of
\* the new capture.
ReportedOldRows(t) ==
    Range(RowsDeletedOf(t))
        \cup {RowsModifiedOf(t)[i].OldRow : i \in 1..Len(RowsModifiedOf(t))}

ReportedNewRows(t) ==
    Range(RowsAddedOf(t))
        \cup {RowsModifiedOf(t)[i].NewRow : i \in 1..Len(RowsModifiedOf(t))}

(***************************************************************************)
(* C29: of the rows of one capture that carry the same primary-key tuple   *)
(* compareData keeps the last; an earlier one takes no part (the DataDiff  *)
(* is one of those of the captures without the earlier rows) and is in     *)
(* none of RowsAdded, RowsDeleted and RowsModified.                        *)
(***************************************************************************)
C29_LastRowOfAKeyWins ==
    pc = "compared" =>
        \A t \in Both :
            HasPrimaryIndex(snap2[t].Schema) =>
                LET pk  == getPrimaryKeyColumns(snap2[t].Schema)
                    old == snap1[t].Data
                    new == snap2[t].Data
                IN  /\ \A j \in EarlierPositions(old, pk) :
                          old[j] \notin Range(WithoutEarlier(old, pk))
                              => old[j] \notin ReportedOldRows(t)
                    /\ \A j \in EarlierPositions(new, pk) :
                          new[j] \notin Range(WithoutEarlier(new, pk))
                              => new[j] \notin ReportedNewRows(t)
                    /\ (IF t \in DOMAIN result.DataDiffs
                        THEN Some(result.DataDiffs[t]) ELSE None)
                          \in compareData(t, WithoutEarlier(old, pk), WithoutEarlier(new, pk),
                                          snap2[t].Schema)

\* C29 witness: the old capture holds two different rows of one primary-key
\* tuple, the new capture none of that tuple: the second is the row deleted.
C29_Witness ==
    /\ pc = "compared"
    /\ "users" \in Both
    /\ HasPrimaryIndex(snap2["users"].Schema)
    /\ Len(snap1["users"].Data) = 2
    /\ EarlierPositions(snap1["users"].Data, getPrimaryKeyColumns(snap2["users"].Schema)) = {1}
    /\ snap1["users"].Data[1] # snap1["users"].Data[2]
    /\ RowsDeletedOf("users") = <<snap1["users"].Data[2]>>

\* The index change is one of a primary index: added, dropped, or modified
\* and primary on both sides.
PrimaryIndexChange(c) ==
    \/ c.Action = ActionAdd /\ c.NewIndex[1].Primary
    \/ c.Action = ActionDrop /\ c.OldIndex[1].Primary
    \/ c.Action = ActionModify /\ c.OldIndex[1].Primary /\ c.NewIndex[1].Primary

\* Every change of the SchemaDiff is a change of a primary index.
OnlyPrimaryIndexChanges(d) ==
    /\ d.ColumnChanges = <<>>
    /\ d.ForeignKeyChanges = <<>>
    /\ \A i \in 1..Len(d.IndexChanges) : PrimaryIndexChange(d.IndexChanges[i])

(***************************************************************************)
(* C30: in the DDL of a MODIFY SchemaDiff no statement is about an index   *)
(* change of a primary index (added, dropped, or modified and primary on   *)
(* both sides); when the SchemaDiff has no other change its DDL is empty   *)
(* and the script holds no block for the table.                            *)
(***************************************************************************)
C30_PrimaryIndexChangeIsSilent ==
    pc = "generated" =>
        \A t \in DOMAIN result.SchemaDiffs :
            result.SchemaDiffs[t].Action = ActionModify =>
                LET d     == result.SchemaDiffs[t]
                    stmts == DDLStatementsOf(t)
                IN  /\ \A i \in 1..Len(d.IndexChanges) :
                          PrimaryIndexChange(d.IndexChanges[i]) =>
                              \A k \in 1..Len(stmts) :
                                  Phase(stmts[k]) \in {2, 4} =>
                                      stmts[k].name
                                          # quoteIdentifier(dbType, d.IndexChanges[i].IndexName)
                    /\ OnlyPrimaryIndexChanges(d) =>
                          /\ stmts = <<>>
                          /\ \A b \in 1..Len(sql) :
                                /\ Len(sql[b]) >= 1
                                /\ \A k \in 1..Len(sql[b]) :
                                      sql[b][k].table # quoteIdentifier(dbType, t)

\* C30 witness: the primary index moves from id to a, nothing else changes:
\* a MODIFY SchemaDiff with one index change and an empty script.
C30_Witness ==
    /\ pc = "generated"
    /\ "users" \in DOMAIN result.SchemaDiffs
    /\ result.SchemaDiffs["users"].Action = ActionModify
    /\ OnlyPrimaryIndexChanges(result.SchemaDiffs["users"])
    /\ Len(result.SchemaDiffs["users"].IndexChanges) = 1
    /\ result.SchemaDiffs["users"].IndexChanges[1].Action = ActionModify
    /\ sql = <<>>

(***************************************************************************)
(* C3: two runs of Compare followed by GenerateSQL on the same pair of     *)
(* snapshots produce the identical script.                                 *)
(***************************************************************************)
C3_SecondRunSameScript ==
    (pc = "generated" /\ run = 2) => sql = firstSql

\* Any two snapshots over the table names, their tables without rows.
InitTwoRuns ==
    /\ Init
    /\ \A t \in DOMAIN snap1 : snap1[t].Data = <<>>
    /\ \A t \in DOMAIN snap2 : snap2[t].Data = <<>>

\* Two runs of the command on the same two snapshots.
SpecTwoRuns == InitTwoRuns /\ [][NextTwoRuns]_vars

====
